---- MODULE Spec2Model ----
(***************************************************************************)
(* Model of the multi-analyzer SEO scoring pipeline of amplify2.1:         *)
(* the analyzers of app/services/analyzers/*.py, the analyzers and the     *)
(* aggregate analyze_seo of app/services/analyzer.py, and the aggregate    *)
(* legacy_analyze_seo of app/services/analyzers/__init__.py.               *)
(*                                                                         *)
(* A parsed document (the BeautifulSoup tree) is a set of elements.  An    *)
(* element is a record                                                     *)
(*    k : the kind of element (tag plus the attribute that selects it)     *)
(*    v : the variant of its content the analyzers distinguish             *)
(*    s : TRUE when the element is a script/style/noscript/iframe/header/  *)
(*        footer/nav element or lies inside one (what                      *)
(*        KeywordOptimizationAnalyzer._extract_text_content extracts)      *)
(*    w : the significant word (longer than 3 letters, no stop word) in    *)
(*        its text, "-" when it has none                                   *)
(* Elements of a document are laid out in the order given by Rank.         *)
(* Recommendation texts are abbreviated to short identifiers.              *)
(***************************************************************************)
EXTENDS Integers, Sequences, FiniteSets, TLC

\* ------------------------------------------------------------------------
\* Bounds of the model
\* ------------------------------------------------------------------------
\* largest number of elements in an analysed document
MaxElems == 1

\* ------------------------------------------------------------------------
\* Documents
\* ------------------------------------------------------------------------
El(k, v, s, w) == [k |-> k, v |-> v, s |-> s, w |-> w]

Universe ==
    { El("html", "lang", FALSE, "-") }
    \cup { El("title", "short", FALSE, "-"), El("title", "ok", FALSE, "alpha"),
           El("title", "long", FALSE, "-"), El("title", "min", FALSE, "-"),
           El("title", "max", FALSE, "-") }
    \cup { El("metaDesc", v, FALSE, "-") : v \in {"short", "ok", "long"} }
    \cup { El("metaKw", "ok", s, "alpha") : s \in BOOLEAN }
    \cup { El("metaKw", "few", FALSE, "alpha") }
    \cup { El("og", "title", FALSE, "-"), El("twitter", "card", FALSE, "-"),
           El("favicon", "icon", FALSE, "-"), El("canonical", "self", FALSE, "-"),
           El("robots", "index", FALSE, "-"), El("hreflang", "en", FALSE, "-"),
           El("jsonld", "typed", TRUE, "-"), El("microdata", "schema", FALSE, "-"),
           El("hint", "preload", FALSE, "-"), El("lazy", "img", FALSE, "-") }
    \cup { El("scriptSrc", v, TRUE, "-") : v \in {"plain", "both"} }
    \cup { El("viewport", v, FALSE, "-") : v \in {"resp", "width", "scale", "fixed"} }
    \cup { El("style", "media", TRUE, "-") }
    \cup { El("h1", "text", s, "alpha") : s \in BOOLEAN }
    \cup { El("h2", "text", FALSE, "alpha") }
    \cup { El("p", "short", FALSE, "beta"), El("p", "mid", FALSE, "beta"),
           El("p", "para", FALSE, "alpha"),
           El("p", "long", FALSE, "alpha") }
    \* a paragraph of a footer that repeats the text of a paragraph of the body
    \cup { El("p", "short", TRUE, "beta"), El("p", "para", TRUE, "alpha") }
    \cup { El("img", v, FALSE, "-") : v \in {"noalt", "srcset"} }
    \cup { El("img", "alt", FALSE, "alpha") }
    \cup { El("a", v, FALSE, "-") : v \in {"root", "same", "rel", "ext", "bad", "small", "huge"} }
    \cup { El("smallFont", "px10", FALSE, "-"), El("list", "ul", FALSE, "-") }

\* kinds of which soup.find() sees only the first one: a document of the
\* model holds at most one element of such a kind
SingleKinds == {"html", "title", "metaDesc", "metaKw", "viewport", "h1"}

WellFormed(d) ==
    \A e1 \in d : \A e2 \in d :
        (e1.k = e2.k /\ e1.k \in SingleKinds) => e1 = e2

RECURSIVE DocsUpTo(_)
DocsUpTo(n) ==
    IF n = 0 THEN {{}}
    ELSE LET P == DocsUpTo(n - 1)
         IN  P \cup { d \cup {e} : d \in P, e \in Universe }

\* a page that has every element the analyzers look for
FullDoc ==
    { El("html", "lang", FALSE, "-"), El("title", "ok", FALSE, "alpha"),
      El("metaDesc", "ok", FALSE, "-"), El("metaKw", "ok", FALSE, "alpha"),
      El("og", "title", FALSE, "-"), El("twitter", "card", FALSE, "-"),
      El("favicon", "icon", FALSE, "-"), El("canonical", "self", FALSE, "-"),
      El("robots", "index", FALSE, "-"), El("hreflang", "en", FALSE, "-"),
      El("jsonld", "typed", TRUE, "-"), El("microdata", "schema", FALSE, "-"),
      El("hint", "preload", FALSE, "-"), El("lazy", "img", FALSE, "-"),
      El("scriptSrc", "both", TRUE, "-"), El("viewport", "resp", FALSE, "-"),
      El("style", "media", TRUE, "-"), El("h1", "text", FALSE, "alpha"),
      El("h2", "text", FALSE, "alpha"), El("p", "long", FALSE, "alpha"),
      El("p", "para", FALSE, "alpha"), El("p", "para", TRUE, "alpha"),
      El("p", "short", FALSE, "beta"), El("p", "short", TRUE, "beta"),
      El("p", "mid", FALSE, "beta"), El("img", "srcset", FALSE, "-"),
      El("img", "alt", FALSE, "alpha"), El("a", "root", FALSE, "-"),
      El("a", "same", FALSE, "-"), El("a", "rel", FALSE, "-"),
      El("a", "ext", FALSE, "-"), El("list", "ul", FALSE, "-") }

\* pages about one keyword, which stands in the title, the h1 and the first
\* paragraph, and on the second page in an h2 and an alt text as well
PlacedDoc ==
    { El("title", "ok", FALSE, "alpha"), El("h1", "text", FALSE, "alpha"),
      El("p", "para", FALSE, "alpha") }
WellPlacedDoc ==
    PlacedDoc \cup { El("metaKw", "ok", FALSE, "alpha"), El("h2", "text", FALSE, "alpha"),
                     El("img", "alt", FALSE, "alpha") }

\* the analysed documents: up to MaxElems elements, the full page with at
\* most one element taken out, or a page about one keyword
Docs == { d \in DocsUpTo(MaxElems) : WellFormed(d) }
        \cup {FullDoc} \cup { FullDoc \ {e} : e \in FullDoc }
        \cup {PlacedDoc, WellPlacedDoc}

\* document order of the elements
KindOrder == << "html", "title", "metaDesc", "metaKw", "og", "twitter", "favicon",
                "canonical", "robots", "hreflang", "hint", "viewport", "style",
                "jsonld", "scriptSrc", "h1", "h2", "p", "img", "lazy", "a",
                "smallFont", "list", "microdata" >>
VarOrder == << "lang", "short", "min", "ok", "max", "long", "few", "title", "card",
               "icon", "self", "index", "en", "typed", "schema", "preload", "img",
               "plain", "both", "resp", "width", "scale", "fixed", "media", "text", "mid", "para",
               "noalt", "srcset", "alt", "root", "same", "rel", "ext", "bad", "small",
               "huge",
               "px10", "ul" >>

IndexOf(seq, x) == CHOOSE i \in 1..Len(seq) : seq[i] = x

Rank(e) == IndexOf(KindOrder, e.k) * 10000 + IndexOf(VarOrder, e.v) * 100
           + (IF e.s THEN 10 ELSE 0) + (IF e.w = "-" THEN 0 ELSE IF e.w = "alpha" THEN 1 ELSE 2)

\* the elements of a set, in document order
RECURSIVE InOrder(_)
InOrder(S) ==
    IF S = {} THEN << >>
    ELSE LET first == CHOOSE e \in S : \A f \in S : Rank(e) <= Rank(f)
         IN  << first >> \o InOrder(S \ {first})

\* soup.find_all(kind), soup.find(kind)
FindAll(soup, kind) == InOrder({ e \in soup : e.k = kind })
Has(soup, kind) == \E e \in soup : e.k = kind
Find(soup, kind) == FindAll(soup, kind)[1]

\* ------------------------------------------------------------------------
\* URLs: what urlparse(url) yields, or that it raises ValueError
\* (an unbalanced bracket in the host part, "http://[bad")
\* ------------------------------------------------------------------------
Url(raises, scheme, path, query) ==
    [raises |-> raises, scheme |-> scheme, path |-> path, query |-> query]

Urls == { Url(FALSE, "https", "clean", FALSE),
          Url(FALSE, "http", "upper", TRUE),
          Url(TRUE, "http", "clean", FALSE) }

\* ------------------------------------------------------------------------
\* Text of the elements
\* ------------------------------------------------------------------------
TextKinds == {"title", "h1", "h2", "p", "a"}
HeadKinds == {"title", "metaDesc", "metaKw", "og", "twitter", "favicon",
              "canonical", "robots", "hreflang", "hint", "viewport"}

Fillers == << "f01", "f02", "f03", "f04", "f05", "f06", "f07", "f08", "f09", "f10",
              "f11", "f12", "f13", "f14", "f15", "f16", "f17", "f18", "f19", "f20",
              "f21", "f22", "f23", "f24" >>

\* the significant words of an element's text, in order
SigWords(e) ==
    IF e.k \notin TextKinds THEN << >>
    ELSE IF e.k = "p" /\ e.v = "long" THEN << e.w >> \o Fillers
    ELSE IF e.w = "-" THEN << >> ELSE << e.w >>

\* len(text.split()) of an element's text
Words(e) ==
    CASE e.k = "title" -> (IF e.v = "short" THEN 1 ELSE IF e.v = "min" THEN 2
                           ELSE IF e.v = "ok" THEN 4 ELSE IF e.v = "max" THEN 9 ELSE 12)
      [] e.k = "h1" -> 3
      [] e.k = "h2" -> 2
      [] e.k = "a" -> 2
      [] e.k = "p" -> (IF e.v = "short" THEN 3 ELSE IF e.v = "mid" THEN 18
                       ELSE IF e.v = "para" THEN 6 ELSE 320)
      [] OTHER -> 0

\* len(element.get_text(strip=True)); for a meta tag, len(content)
Chars(e) ==
    CASE e.k = "title" -> (IF e.v = "short" THEN 5 ELSE IF e.v = "min" THEN 10
                           ELSE IF e.v = "ok" THEN 30 ELSE IF e.v = "max" THEN 60 ELSE 70)
      [] e.k = "metaDesc" -> (IF e.v = "short" THEN 20 ELSE IF e.v = "ok" THEN 100 ELSE 200)
      [] e.k = "h1" -> 20
      [] e.k = "h2" -> 12
      [] e.k = "a" -> 10
      [] e.k = "p" -> (IF e.v = "short" THEN 15 ELSE IF e.v = "mid" THEN 100
                       ELSE IF e.v = "para" THEN 30 ELSE 2000)
      [] OTHER -> 0

\* number of runs of . ! ? in an element's text
Terminators(e) ==
    IF e.k = "p" THEN (IF e.v = "long" THEN 8 ELSE 1) ELSE 0

\* number of words of three or more syllables in an element's text
ComplexWords(e) ==
    IF e.k = "p" THEN (IF e.v = "long" THEN 200 ELSE IF e.v = "para" THEN 1 ELSE 0)
    ELSE 0

\* ------------------------------------------------------------------------
\* Arithmetic and sequence helpers
\* ------------------------------------------------------------------------
Min(a, b) == IF a < b THEN a ELSE b
Max(a, b) == IF a > b THEN a ELSE b

\* Python round(num / den) for num >= 0, den > 0: ties go to the even integer
RoundHalfEven(num, den) ==
    LET q == num \div den
        r == num % den
    IN  IF 2 * r < den THEN q
        ELSE IF 2 * r > den THEN q + 1
        ELSE IF q % 2 = 0 THEN q ELSE q + 1

RECURSIVE SumSeq(_)
SumSeq(seq) == IF seq = << >> THEN 0 ELSE Head(seq) + SumSeq(Tail(seq))

RECURSIVE Flatten(_)
Flatten(seqs) == IF seqs = << >> THEN << >> ELSE Head(seqs) \o Flatten(Tail(seqs))

Map(seq, Op(_)) == [i \in 1..Len(seq) |-> Op(seq[i])]

Range(seq) == { seq[i] : i \in 1..Len(seq) }

Count(seq, x) == Cardinality({ i \in 1..Len(seq) : seq[i] = x })

FirstIndex(seq, x) == CHOOSE i \in 1..Len(seq) : seq[i] = x /\ \A j \in 1..(i - 1) : seq[j] # x

Take(seq, n) == SubSeq(seq, 1, Min(n, Len(seq)))

\* Counter(words).most_common(): the distinct words, most frequent first,
\* equally frequent words in the order of their first occurrence
RECURSIVE MostCommonOf(_, _)
MostCommonOf(words, rest) ==
    IF rest = {} THEN << >>
    ELSE LET best == CHOOSE x \in rest : \A y \in rest :
                        \/ Count(words, x) > Count(words, y)
                        \/ /\ Count(words, x) = Count(words, y)
                           /\ FirstIndex(words, x) <= FirstIndex(words, y)
         IN  << best >> \o MostCommonOf(words, rest \ {best})

MostCommon(words) == MostCommonOf(words, Range(words))

\* the result an analyzer substitutes for an exception
ErrorResult(msg) == [error |-> msg]
IsError(r) == "error" \in DOMAIN r

\* ------------------------------------------------------------------------
\* app/services/analyzers/meta_analyzer.py
\* ------------------------------------------------------------------------
\* largest number of times one word longer than 3 letters occurs in a text
MaxRepeat(e) == IF SigWords(e) = << >> THEN 0 ELSE 1

\* a title of exactly 10 characters counted as too short as well
TitleTooShortAtMost10(length) == length <= 10

\* len(title) < 10
TitleTooShort(length) == length < 10

\* len(title) > 60
TitleTooLong(length) == length > 60

\* MetaAnalyzer._analyze_title
MetaTitle(soup) ==
    IF ~Has(soup, "title")
    THEN [present |-> FALSE, length |-> 0, is_optimized |-> FALSE,
          issues |-> << "title:missing" >>]
    ELSE LET t == Find(soup, "title")
             lenIssue == IF TitleTooShort(Chars(t)) THEN << "title:too-short" >>
                         ELSE IF TitleTooLong(Chars(t)) THEN << "title:too-long" >>
                         ELSE << >>
             spam == IF MaxRepeat(t) > 2 /\ Words(t) > 4
                     THEN << "title:keyword-spam" >> ELSE << >>
         IN  [present |-> TRUE, length |-> Chars(t),
              is_optimized |-> (lenIssue \o spam = << >>),
              issues |-> lenIssue \o spam]

\* length of the description: the meta description's content, else the first
\* two paragraph texts joined by one space; 0 when neither exists
DescriptionLength(soup) ==
    IF Has(soup, "metaDesc") THEN Chars(Find(soup, "metaDesc"))
    ELSE LET ps == Take(FindAll(soup, "p"), 2)
         IN  IF ps = << >> THEN 0
             ELSE SumSeq(Map(ps, Chars)) + (Len(ps) - 1)

\* MetaAnalyzer._analyze_description
MetaDescription(soup) ==
    LET len == DescriptionLength(soup)
    IN  IF len = 0
        THEN [present |-> FALSE, length |-> 0, is_optimized |-> FALSE,
              issues |-> << "description:missing" >>]
        ELSE LET issues == IF len < 50 THEN << "description:too-short" >>
                           ELSE IF len > 160 THEN << "description:too-long" >>
                           ELSE << >>
             IN  [present |-> TRUE, length |-> len,
                  is_optimized |-> (issues = << >>), issues |-> issues]

\* the keywords of the meta keywords tag, split on commas and stripped
KeywordList(e) ==
    IF e.v = "few" THEN << e.w >> ELSE << e.w, "gamma", "delta" >>

\* MetaAnalyzer._analyze_keywords
MetaKeywords(soup) ==
    IF ~Has(soup, "metaKw")
    THEN [present |-> FALSE, count |-> 0, is_optimized |-> FALSE,
          issues |-> << "keywords:missing" >>]
    ELSE LET kws == KeywordList(Find(soup, "metaKw"))
             issues == IF Len(kws) < 3 THEN << "keywords:too-few" >>
                       ELSE IF Len(kws) > 10 THEN << "keywords:too-many" >>
                       ELSE << >>
         IN  [present |-> TRUE, count |-> Len(kws),
              is_optimized |-> (issues = << >>), issues |-> issues]

\* MetaAnalyzer._analyze_open_graph: the only Open Graph tag of the model is
\* og:title, so a set that is present is incomplete
MetaOpenGraph(soup) ==
    [has_og_tags |-> Has(soup, "og"), is_complete |-> FALSE,
     issues |-> IF Has(soup, "og") THEN << "og:incomplete" >> ELSE << >>]

\* MetaAnalyzer._analyze_twitter_cards
MetaTwitter(soup) ==
    [has_twitter_tags |-> Has(soup, "twitter"), is_complete |-> FALSE,
     issues |-> IF Has(soup, "twitter") THEN << "twitter:incomplete" >> ELSE << >>]

\* MetaAnalyzer._analyze_language
MetaLanguage(soup) ==
    [has_lang_attribute |-> \E e \in soup : e.k = "html" /\ e.v = "lang"]

\* MetaAnalyzer._analyze_icons
MetaIcons(soup) == [has_favicon |-> Has(soup, "favicon")]

Weight(cond, w) == IF cond THEN w ELSE 0

\* MetaAnalyzer.analyze, the statements inside its try block
MetaBody(soup, url) ==
    LET title == MetaTitle(soup)
        description == MetaDescription(soup)
        keywords == MetaKeywords(soup)
        og == MetaOpenGraph(soup)
        twitter == MetaTwitter(soup)
        language == MetaLanguage(soup)
        icons == MetaIcons(soup)
        recommendations ==
            title.issues \o description.issues \o keywords.issues
            \o (IF ~og.has_og_tags THEN << "meta:add-open-graph" >> ELSE << >>)
            \o (IF ~twitter.has_twitter_tags THEN << "meta:add-twitter-cards" >> ELSE << >>)
            \o (IF ~icons.has_favicon THEN << "meta:add-favicon" >> ELSE << >>)
            \o (IF ~language.has_lang_attribute THEN << "meta:add-lang" >> ELSE << >>)
        meta_score ==
            Weight(title.issues = << >>, 25) + Weight(description.issues = << >>, 25)
            + Weight(og.has_og_tags, 15) + Weight(twitter.has_twitter_tags, 10)
            + Weight(icons.has_favicon, 10) + Weight(language.has_lang_attribute, 15)
    IN  [title |-> title, description |-> description, keywords |-> keywords,
         open_graph |-> og, twitter_cards |-> twitter, language |-> language,
         icons |-> icons, meta_score |-> meta_score,
         recommendations |-> recommendations]

\* ------------------------------------------------------------------------
\* app/services/analyzers/content_analyzer.py
\* ------------------------------------------------------------------------
\* ContentQualityAnalyzer._extract_main_content: none of the containers
\* (main, #content, #main-content, .content, .main-content, article) occurs
\* in the documents of the model, so the result is soup.body or soup; a
\* document has a body when it has an html element
MainContent(soup) ==
    IF Has(soup, "html") THEN { e \in soup : e.k \notin HeadKinds /\ e.k # "html" }
    ELSE soup

\* ContentQualityAnalyzer._calculate_readability_score
Readability(words, complex) ==
    IF words = 0 THEN 0
    ELSE RoundHalfEven(100 * (Max(1, words) - complex), Max(1, words))

\* ContentQualityAnalyzer._assess_content_structure: the score is
\* StructureNum / (100 * text_blocks) with text_blocks = paragraphs + 1
StructureNum(soup) ==
    LET paragraphs == Len(FindAll(soup, "p"))
        headings == Len(FindAll(soup, "h1")) + Len(FindAll(soup, "h2"))
        lists == Len(FindAll(soup, "list"))
        text_blocks == paragraphs + 1
    IN  \* 0.7 * min(1, headings / (text_blocks / 4)) + 0.3 * has_lists
        70 * Min(text_blocks, 4 * headings)
        + 30 * (IF lists > 0 THEN 1 ELSE 0) * text_blocks

\* round(structure_score, 2), in hundredths
StructureScore100(soup) ==
    RoundHalfEven(StructureNum(soup), Len(FindAll(soup, "p")) + 1)

\* structure_score < 0.7
StructureBelow70(soup) ==
    StructureNum(soup) < 70 * (Len(FindAll(soup, "p")) + 1)

\* paragraphs longer than 10 characters compared, instead of 20
LongEnoughOver10(e) == Chars(e) > 10

\* len(p.get_text(strip=True)) > 20
LongEnough(e) == Chars(e) > 20

\* ContentQualityAnalyzer._check_duplicate_paragraphs: the paragraph texts
\* longer than 20 characters that occur more than once
DuplicateParagraphs(soup) ==
    LET texts == [i \in 1..Len(FindAll(soup, "p")) |->
                     << FindAll(soup, "p")[i].v, FindAll(soup, "p")[i].w >>]
        long == { i \in 1..Len(texts) : LongEnough(FindAll(soup, "p")[i]) }
        dups == { texts[i] : i \in { j \in long : \E k \in long : k # j /\ texts[k] = texts[j] } }
    IN  [has_duplicates |-> Cardinality(dups) > 0, duplicate_count |-> Cardinality(dups)]

\* ContentQualityAnalyzer.analyze, the statements inside its try block
ContentBody(soup, url) ==
    LET main == InOrder(MainContent(soup))
        word_count == SumSeq(Map(main, Words))
        sentence_count == SumSeq(Map(main, Terminators)) + 1
        readability == Readability(word_count, SumSeq(Map(main, ComplexWords)))
        is_thin_content == word_count < 300
        duplicate_content == DuplicateParagraphs(soup)
        recommendations ==
            (IF is_thin_content THEN << "content:too-short" >> ELSE << >>)
            \o (IF word_count > 25 * Max(1, sentence_count)
                THEN << "content:long-sentences" >> ELSE << >>)
            \o (IF StructureBelow70(soup) THEN << "content:structure" >> ELSE << >>)
            \o (IF readability < 50 THEN << "content:hard-to-read" >> ELSE << >>)
            \o (IF duplicate_content.has_duplicates
                THEN << "content:duplicates" >> ELSE << >>)
    IN  [word_count |-> word_count, sentence_count |-> sentence_count,
         readability_score |-> readability,
         structure_score |-> StructureScore100(soup),
         is_thin_content |-> is_thin_content,
         duplicate_content |-> duplicate_content,
         recommendations |-> recommendations]

\* ------------------------------------------------------------------------
\* app/services/analyzers/technical_analyzer.py
\* ------------------------------------------------------------------------
\* TechnicalSEOAnalyzer._check_canonical
CheckCanonical(soup) ==
    [has_canonical |-> Has(soup, "canonical"),
     is_self_canonical |-> \E e \in soup : e.k = "canonical" /\ e.v = "self"]

\* TechnicalSEOAnalyzer._check_robots
CheckRobots(soup) ==
    [has_robots_tag |-> Has(soup, "robots"),
     is_noindex |-> \E e \in soup : e.k = "robots" /\ e.v = "noindex"]

\* TechnicalSEOAnalyzer._analyze_url (technical_analyzer.py)
AnalyzeUrl(url) ==
    LET issues == (IF url.path = "upper" THEN << "url:uppercase" >> ELSE << >>)
                  \o (IF url.query THEN << "url:query-parameters" >> ELSE << >>)
    IN  [issues |-> issues, is_optimized |-> (issues = << >>)]

\* the lang attribute of the html element, "" when it has none
PageLang(soup) == IF \E e \in soup : e.k = "html" /\ e.v = "lang" THEN "ru" ELSE ""

\* TechnicalSEOAnalyzer._check_hreflang raises AttributeError at soup.html.get
\* when hreflang links exist and the document has no html element
HreflangRaises(soup) == Has(soup, "hreflang") /\ ~Has(soup, "html")

\* TechnicalSEOAnalyzer._check_hreflang (technical_analyzer.py)
CheckHreflang(soup) ==
    IF ~Has(soup, "hreflang") THEN [has_hreflang |-> FALSE, languages |-> << >>, issues |-> << >>]
    ELSE LET languages == Map(FindAll(soup, "hreflang"), LAMBDA e : e.v)
         IN  [has_hreflang |-> TRUE, languages |-> languages,
              issues |-> IF PageLang(soup) # "" /\ PageLang(soup) \notin Range(languages)
                         THEN << "hreflang:no-self-reference" >> ELSE << >>]

\* TechnicalSEOAnalyzer._check_schema_markup
CheckSchemaMarkup(soup) ==
    [has_schema |-> Has(soup, "jsonld") \/ Has(soup, "microdata"),
     json_ld_count |-> Len(FindAll(soup, "jsonld")),
     microdata_count |-> Len(FindAll(soup, "microdata"))]

\* script_score = min(100, (optimized_scripts / max(1, len(scripts))) * 100),
\* as the numerator of a fraction over total = max(1, len(scripts))
ScriptScoreNum(optimized_scripts, total) == Min(100 * total, 100 * optimized_scripts)

\* TechnicalSEOAnalyzer._check_loading_optimization
CheckLoadingOptimization(soup) ==
    LET scripts == { e \in soup : e.k = "scriptSrc" }
        \* a script of variant "both" has the async and the defer attribute
        async_scripts == { e \in scripts : e.v = "both" }
        defer_scripts == { e \in scripts : e.v = "both" }
        total == Max(1, Cardinality(scripts))
        optimized_scripts == Cardinality(async_scripts) + Cardinality(defer_scripts)
        has_resource_hints == Has(soup, "hint")
        has_lazy_loading == Has(soup, "lazy")
        script_num == ScriptScoreNum(optimized_scripts, total)
    IN  [has_resource_hints |-> has_resource_hints,
         script_score |-> RoundHalfEven(script_num, total),
         has_lazy_loading |-> has_lazy_loading,
         \* hints * 40 + script_score * 0.4 + lazy * 20
         optimization_score |->
             RoundHalfEven(400 * total * Weight(has_resource_hints, 1)
                           + 4 * script_num
                           + 200 * total * Weight(has_lazy_loading, 1), 10 * total)]

\* TechnicalSEOAnalyzer._check_security
CheckSecurity(url) == [is_https |-> url.scheme = "https"]

\* the href of a link: root-relative, another host, malformed, or a fragment
Href(e) ==
    CASE e.v = "root" -> "/x"
      [] e.v = "same" -> "https://example.com/y"
      [] e.v = "rel" -> "page.html"
      [] e.v = "ext" -> "https://ext.com"
      [] e.v = "bad" -> "http://[bad"
      [] OTHER -> "#"

\* href.startswith('/')
StartsWithSlash(href) == href = "/x"

\* href.startswith(('http://', 'https://'))
IsAbsolute(href) == href \in {"https://example.com/y", "https://ext.com", "http://[bad"}

\* urlparse(href).netloc of an href urlparse accepts; "" when it has none
Netloc(href) ==
    CASE href = "https://example.com/y" -> "example.com"
      [] href = "https://ext.com" -> "ext.com"
      [] OTHER -> ""

\* urlparse(url).netloc of the analysed URL
Domain == "example.com"

\* the absolute URL _analyze_internal_links keeps for an internal link
FullUrl(e, url) ==
    CASE Href(e) = "/x" -> << url.scheme, Domain, "/x" >>
      [] Href(e) = "page.html" -> << url.scheme, Domain, "/page.html" >>
      [] OTHER -> << "https", Domain, "/y" >>

\* urlparse(href) raises ValueError
HrefRaises(e) == e.k = "a" /\ Href(e) = "http://[bad"

\* TechnicalSEOAnalyzer._analyze_internal_links; no link text of the model
\* contains the text of a heading, so every h2 is an orphaned heading
AnalyzeInternalLinks(soup, url) ==
    LET links == { e \in soup : e.k = "a" /\ Href(e) # "#" }
        internal_links == { l \in links : \/ StartsWithSlash(Href(l))
                                          \/ (IsAbsolute(Href(l)) /\ Netloc(Href(l)) = Domain)
                                          \/ ~IsAbsolute(Href(l)) }
        internal == { FullUrl(l, url) : l \in internal_links }
        internal_count == Cardinality(internal_links)
        external_count == Cardinality({ l \in links : ~StartsWithSlash(Href(l)) /\ IsAbsolute(Href(l))
                                                      /\ Netloc(Href(l)) # Domain })
        orphaned_headings == Len(FindAll(soup, "h2"))
        has_sufficient_internal == Cardinality(internal) >= 3
    IN  [internal_links |-> [count |-> internal_count, unique_count |-> Cardinality(internal)],
         external_links |-> [count |-> external_count],
         orphaned_headings |-> orphaned_headings,
         has_sufficient_internal |-> has_sufficient_internal,
         link_score |-> Weight(has_sufficient_internal, 60) + Weight(external_count > 0, 20)
                        + Weight(orphaned_headings = 0, 20)]

\* an exception is raised inside TechnicalSEOAnalyzer.analyze
\* (technical_analyzer.py): urlparse(url), soup.html.get, urlparse(href)
TechnicalRaises(soup, url) ==
    url.raises \/ HreflangRaises(soup) \/ \E e \in soup : HrefRaises(e)

\* TechnicalSEOAnalyzer.analyze, the statements inside its try block
TechnicalBody(soup, url) ==
    LET canonical == CheckCanonical(soup)
        robots == CheckRobots(soup)
        url_analysis == AnalyzeUrl(url)
        hreflang == CheckHreflang(soup)
        schema == CheckSchemaMarkup(soup)
        loading == CheckLoadingOptimization(soup)
        security == CheckSecurity(url)
        internal_links == AnalyzeInternalLinks(soup, url)
        recommendations ==
            (IF ~canonical.has_canonical THEN << "technical:add-canonical" >> ELSE << >>)
            \o (IF ~robots.has_robots_tag THEN << "technical:add-robots" >> ELSE << >>)
            \o (IF url_analysis.issues # << >> THEN << "technical:url-issues" >> ELSE << >>)
            \o (IF ~schema.has_schema THEN << "technical:add-schema" >> ELSE << >>)
            \o (IF ~loading.has_resource_hints THEN << "technical:add-resource-hints" >> ELSE << >>)
            \o (IF ~security.is_https THEN << "technical:use-https" >> ELSE << >>)
            \o (IF internal_links.orphaned_headings > 0
                THEN << "technical:orphaned-headings" >> ELSE << >>)
        \* the sum of the score components, in hundredths
        score100 == 100 * (Weight(canonical.has_canonical, 15) + Weight(robots.has_robots_tag, 10)
                           + Weight(url_analysis.issues = << >>, 15)
                           + Weight(schema.has_schema, 15) + Weight(security.is_https, 15))
                    + 20 * loading.optimization_score + 10 * internal_links.link_score
    IN  [canonical |-> canonical, robots |-> robots, url_analysis |-> url_analysis,
         hreflang |-> hreflang, schema_markup |-> schema,
         loading_optimization |-> loading, security |-> security,
         internal_links |-> internal_links,
         technical_score |-> RoundHalfEven(score100, 100),
         recommendations |-> recommendations]

\* ------------------------------------------------------------------------
\* app/services/analyzers/mobile_analyzer.py
\* ------------------------------------------------------------------------
\* MobileAnalyzer._check_viewport
CheckViewport(soup) ==
    IF ~Has(soup, "viewport")
    THEN [has_viewport |-> FALSE, is_responsive |-> FALSE]
    ELSE LET content == Find(soup, "viewport").v
             has_width == content \in {"resp", "width"}
             has_initial_scale == content \in {"resp", "scale"}
         IN  [has_viewport |-> TRUE, is_responsive |-> has_width /\ has_initial_scale]

\* int(...) of the pixel size in an inline style raises ValueError when the
\* number has more digits than the interpreter's integer-string limit
TouchTargetRaises(e) == e.k = "a" /\ e.v = "huge"

\* MobileAnalyzer._analyze_touch_targets (mobile_analyzer.py)
AnalyzeTouchTargets(soup) ==
    LET targets == { e \in soup : e.k = "a" }
        small_elements == Cardinality({ e \in targets : e.v = "small" })
        total_targets == Cardinality(targets)
    IN  [total_touch_targets |-> total_targets,
         potential_small_targets |-> small_elements,
         \* small_elements == 0 or small_elements / max(1, total_targets) < 0.1
         adequate_sizing |-> small_elements = 0
                             \/ 10 * small_elements < Max(1, total_targets)]

\* MobileAnalyzer._analyze_font_sizes
AnalyzeFontSizes(soup) ==
    LET small_fonts == Cardinality({ e \in soup : e.k = "smallFont" })
    IN  [small_inline_fonts |-> small_fonts, potential_issues |-> small_fonts > 0]

\* MobileAnalyzer._check_responsive_images
CheckResponsiveImages(soup) ==
    LET images == { e \in soup : e.k = "img" }
        responsive_count == Cardinality({ e \in images : e.v = "srcset" })
        \* no style of the model's documents sets a background image in a media query
        has_responsive_bg == FALSE
    IN  [total_images |-> Cardinality(images), responsive_images |-> responsive_count,
         has_responsive_images |-> responsive_count > 0 \/ has_responsive_bg]

\* MobileAnalyzer._check_responsive_css
CheckResponsiveCss(soup) ==
    LET media_queries == { e \in soup : e.k = "style" /\ e.v = "media" }
    IN  [has_media_queries |-> Cardinality(media_queries) > 0,
         media_queries_count |-> Cardinality(media_queries)]

\* an exception is raised inside MobileAnalyzer.analyze
MobileRaises(soup, url) == \E e \in soup : TouchTargetRaises(e)

\* MobileAnalyzer.analyze, the statements inside its try block
MobileBody(soup, url) ==
    LET viewport == CheckViewport(soup)
        touch_targets == AnalyzeTouchTargets(soup)
        font_sizes == AnalyzeFontSizes(soup)
        responsive_images == CheckResponsiveImages(soup)
        responsive_css == CheckResponsiveCss(soup)
        recommendations ==
            (IF ~viewport.has_viewport THEN << "mobile:add-viewport" >> ELSE << >>)
            \o (IF ~viewport.is_responsive THEN << "mobile:responsive-viewport" >> ELSE << >>)
            \o (IF ~touch_targets.adequate_sizing THEN << "mobile:touch-targets" >> ELSE << >>)
            \o (IF font_sizes.potential_issues THEN << "mobile:font-sizes" >> ELSE << >>)
            \o (IF ~responsive_images.has_responsive_images /\ responsive_images.total_images > 0
                THEN << "mobile:responsive-images" >> ELSE << >>)
            \o (IF ~responsive_css.has_media_queries THEN << "mobile:media-queries" >> ELSE << >>)
        mobile_score ==
            Weight(viewport.is_responsive, 30) + Weight(touch_targets.adequate_sizing, 20)
            + Weight(~font_sizes.potential_issues, 15)
            + Weight(responsive_images.has_responsive_images, 15)
            + Weight(responsive_css.has_media_queries, 20)
    IN  [viewport |-> viewport, touch_targets |-> touch_targets, font_sizes |-> font_sizes,
         responsive_images |-> responsive_images, responsive_css |-> responsive_css,
         mobile_score |-> mobile_score, recommendations |-> recommendations]

\* ------------------------------------------------------------------------
\* app/services/analyzers/keyword_analyzer.py
\* ------------------------------------------------------------------------
\* the words longer than 3 letters of a meta description's content
DescWords(e) == IF e.v = "short" THEN << "beta" >> ELSE << "alpha", "beta" >>

\* `a in b` for two words of the model: no word is a proper part of another
Contains(b, a) == a = b

RECURSIVE AddDescKeywords(_, _)
AddDescKeywords(keywords, words) ==
    IF words = << >> THEN keywords
    ELSE AddDescKeywords(
            IF \E i \in 1..Len(keywords) : Contains(keywords[i], Head(words))
            THEN keywords ELSE Append(keywords, Head(words)),
            Tail(words))

\* KeywordOptimizationAnalyzer._extract_meta_keywords
ExtractMetaKeywords(soup) ==
    LET fromTag == IF Has(soup, "metaKw") THEN KeywordList(Find(soup, "metaKw")) ELSE << >>
        keywords == IF Has(soup, "metaDesc")
                    THEN AddDescKeywords(fromTag, DescWords(Find(soup, "metaDesc")))
                    ELSE fromTag
    IN  [has_meta_keywords |-> Has(soup, "metaKw"), keywords |-> keywords,
         count |-> Len(keywords)]

\* the tree after the loop of _extract_text_content: every script, style,
\* noscript, iframe, header, footer and nav element is extracted from it
Extracted(soup) == { e \in soup : ~e.s }

\* KeywordOptimizationAnalyzer._extract_text_content: the words longer than
\* 3 letters of soup.get_text(), taken after the extraction
ExtractTextContent(soup) == Flatten(Map(InOrder(Extracted(soup)), SigWords))

\* round(count / max(1, total) * 100, 1), in tenths of a percent
Density10(count, total) == RoundHalfEven(1000 * count, Max(1, total))

\* KeywordOptimizationAnalyzer._detect_keywords
DetectKeywords(words) ==
    LET common == Take(MostCommon(words), 10)
    IN  [keywords |-> [i \in 1..Len(common) |->
                          [keyword |-> common[i], count |-> Count(words, common[i]),
                           density10 |-> Density10(Count(words, common[i]), Len(words))]],
         total_words |-> Len(words)]

\* KeywordOptimizationAnalyzer._analyze_keyword_placement; the documents of
\* the model have no og:url tag, so no keyword is found in the URL
AnalyzeKeywordPlacement(soup, detected) ==
    LET primary == Map(Take(detected.keywords, 5), LAMBDA k : k.keyword)
        n == Len(primary)
        title == IF Has(soup, "title") THEN SigWords(Find(soup, "title")) ELSE << >>
        h1 == IF Has(soup, "h1") THEN SigWords(Find(soup, "h1")) ELSE << >>
        h2 == Flatten(Map(FindAll(soup, "h2"), SigWords))
        first_p == IF Has(soup, "p") THEN SigWords(Find(soup, "p")) ELSE << >>
        alt == { e.w : e \in { i \in soup : i.k = "img" /\ i.v = "alt" } }
        in_title == SelectSeq(primary, LAMBDA k : k \in Range(title))
        in_h1 == SelectSeq(primary, LAMBDA k : k \in Range(h1))
        in_h2 == SelectSeq(primary, LAMBDA k : k \in Range(h2))
        in_url == << >>
        in_first_p == SelectSeq(primary, LAMBDA k : k \in Range(first_p))
        in_alt == SelectSeq(primary, LAMBDA k : k \in alt)
        \* sum of percentage * weight, as the numerator of a fraction over n
        num == 30 * Len(in_title) + 20 * Len(in_h1) + 15 * Len(in_h2)
               + 15 * Len(in_url) + 10 * Len(in_first_p) + 10 * Len(in_alt)
    IN  [title |-> [keywords |-> in_title, count |-> Len(in_title)],
         h1 |-> [keywords |-> in_h1, count |-> Len(in_h1)],
         h2 |-> [keywords |-> in_h2, count |-> Len(in_h2)],
         url |-> [keywords |-> in_url, count |-> Len(in_url)],
         first_paragraph |-> [keywords |-> in_first_p, count |-> Len(in_first_p)],
         alt_text |-> [keywords |-> in_alt, count |-> Len(in_alt)],
         placement_score |-> IF n = 0 THEN 0 ELSE RoundHalfEven(num, n)]

\* a stuffing threshold of 3% instead of 5%
AboveThreshold3(k) == k.density10 > 30

\* k["density"] > stuffing_threshold, the threshold being 5.0
AboveThreshold(k) == k.density10 > 50

\* KeywordOptimizationAnalyzer._analyze_keyword_density: the stuffing part
\* (the per-section distribution is not modelled)
AnalyzeKeywordDensity(detected) ==
    LET stuffed == SelectSeq(detected.keywords, AboveThreshold)
    IN  [potential_stuffing |-> Map(stuffed, LAMBDA k : k.keyword),
         has_keyword_stuffing |-> stuffed # << >>]

\* list(S) of a Python set of strings: the iteration order depends on the
\* string hash seed of the interpreter process (randomised at start-up), not
\* on the program; two of the orders a process can produce
HashSeeds == {"seedA", "seedB"}
WordOrder == << "alpha", "beta", "gamma", "delta" >> \o Fillers
RECURSIVE ListOfSet(_, _)
ListOfSet(S, seed) ==
    IF S = {} THEN << >>
    ELSE LET first == IF seed = "seedA"
                      THEN CHOOSE x \in S : \A y \in S : IndexOf(WordOrder, x) <= IndexOf(WordOrder, y)
                      ELSE CHOOSE x \in S : \A y \in S : IndexOf(WordOrder, x) >= IndexOf(WordOrder, y)
         IN  << first >> \o ListOfSet(S \ {first}, seed)

\* KeywordOptimizationAnalyzer._analyze_semantic_relevance: for each of the
\* top 3 keywords, list(context_words)[:5] of the words within 3 positions of
\* it in the paragraphs that contain it
RelatedTerms(soup, keyword, seed) ==
    LET ps == { e \in soup : e.k = "p" /\ keyword \in Range(SigWords(e)) }
        near(e) == { SigWords(e)[j] : j \in { i \in 1..Len(SigWords(e)) :
                        \E c \in 1..Len(SigWords(e)) :
                            SigWords(e)[c] = keyword /\ i >= c - 3 /\ i <= c + 3 } }
        context_words == UNION { near(e) \ {keyword} : e \in ps }
    IN  Take(ListOfSet(context_words, seed), 5)

AnalyzeSemanticRelevance(soup, detected, seed) ==
    LET primary == Map(Take(detected.keywords, 3), LAMBDA k : k.keyword)
    IN  [related_terms |-> [i \in 1..Len(primary) |->
                               << primary[i], RelatedTerms(soup, primary[i], seed) >>]]

\* KeywordOptimizationAnalyzer._check_keyword_issues
CheckKeywordIssues(meta_keywords, detected, placement, density) ==
    LET top5 == Range(Map(Take(detected.keywords, 5), LAMBDA k : k.keyword))
        match == Range(meta_keywords.keywords) \cap top5
        top2 == Take(detected.keywords, 2)
    IN  (IF meta_keywords.has_meta_keywords /\ match = {}
         THEN << "issue:meta-keywords-mismatch" >> ELSE << >>)
        \o (IF placement.title.count = 0 THEN << "issue:not-in-title" >> ELSE << >>)
        \o (IF placement.h1.count = 0 THEN << "issue:not-in-h1" >> ELSE << >>)
        \o (IF density.has_keyword_stuffing THEN << "issue:stuffing" >> ELSE << >>)
        \o (IF Len(top2) >= 2
               /\ top2[1].density10 > 5 /\ top2[2].density10 > 5
               /\ (Contains(top2[2].keyword, top2[1].keyword)
                   \/ Contains(top2[1].keyword, top2[2].keyword))
            THEN << "issue:cannibalization" >> ELSE << >>)

IssueRecommendation(issue) ==
    CASE issue = "issue:meta-keywords-mismatch" -> "keyword:update-meta-keywords"
      [] issue = "issue:not-in-title" -> "keyword:add-to-title"
      [] issue = "issue:not-in-h1" -> "keyword:add-to-h1"
      [] issue = "issue:stuffing" -> "keyword:reduce-density"
      [] OTHER -> "keyword:pick-one-keyword"

\* KeywordOptimizationAnalyzer._generate_recommendations
GenerateRecommendations(meta_keywords, detected, placement, density, issues) ==
    Map(issues, IssueRecommendation)
    \o (IF placement.placement_score < 50 THEN << "keyword:improve-placement" >> ELSE << >>)
    \o (IF detected.total_words < 300 THEN << "keyword:add-content" >> ELSE << >>)
    \o (IF ~meta_keywords.has_meta_keywords THEN << "keyword:add-meta-keywords" >> ELSE << >>)
    \o (IF placement.alt_text.count = 0 THEN << "keyword:add-to-alt" >> ELSE << >>)

\* _calculate_keyword_score taking 10 points for stuffing where the code takes 15
CalculateKeywordScoreStuffing10(meta_keywords, placement, density, issues) ==
    LET score == 100
                 - Weight(~meta_keywords.has_meta_keywords, 5)
                 - (IF placement.placement_score < 50 THEN 20
                    ELSE IF placement.placement_score < 70 THEN 10 ELSE 0)
                 - Weight(density.has_keyword_stuffing, 10)
                 - Len(issues) * 5
    IN  Max(0, Min(100, score))

\* KeywordOptimizationAnalyzer._calculate_keyword_score
CalculateKeywordScore(meta_keywords, placement, density, issues) ==
    LET score == 100
                 - Weight(~meta_keywords.has_meta_keywords, 5)
                 - (IF placement.placement_score < 50 THEN 20
                    ELSE IF placement.placement_score < 70 THEN 10 ELSE 0)
                 - Weight(density.has_keyword_stuffing, 15)
                 - Len(issues) * 5
    IN  Max(0, Min(100, score))

\* KeywordOptimizationAnalyzer.analyze, the statements inside its try block:
\* the meta keywords are read from the tree as passed in, everything after
\* _extract_text_content from the tree it leaves behind
KeywordBody(soup, url, seed) ==
    LET meta_keywords == ExtractMetaKeywords(soup)
        page_text == ExtractTextContent(soup)
        after == Extracted(soup)
        detected == DetectKeywords(page_text)
        placement == AnalyzeKeywordPlacement(after, detected)
        density == AnalyzeKeywordDensity(detected)
        semantic == AnalyzeSemanticRelevance(after, detected, seed)
        issues == CheckKeywordIssues(meta_keywords, detected, placement, density)
    IN  [meta_keywords |-> meta_keywords, detected_keywords |-> detected,
         placement |-> placement, density |-> density,
         semantic_relevance |-> semantic, issues |-> issues,
         recommendations |->
             GenerateRecommendations(meta_keywords, detected, placement, density, issues),
         keyword_score |-> CalculateKeywordScore(meta_keywords, placement, density, issues)]

\* ------------------------------------------------------------------------
\* app/services/analyzer.py: the analyzers used by analyze_seo
\* ------------------------------------------------------------------------
\* MetaAnalyzer._analyze_title (analyzer.py)
LegacyMetaTitle(soup) ==
    IF ~Has(soup, "title")
    THEN [present |-> FALSE, length |-> 0, is_optimized |-> FALSE,
          issues |-> << "title:missing" >>]
    ELSE LET t == Find(soup, "title")
             issues == IF Chars(t) < 10 THEN << "title:too-short" >>
                       ELSE IF Chars(t) > 60 THEN << "title:too-long" >>
                       ELSE << >>
         IN  [present |-> TRUE, length |-> Chars(t),
              is_optimized |-> (issues = << >>), issues |-> issues]

\* meta_score of MetaAnalyzer.analyze (analyzer.py)
LegacyMetaScore(title_issues, description_issues, has_og_tags) ==
    Max(0, 100 - Len(title_issues) * 20 - Len(description_issues) * 20
           - (IF ~has_og_tags THEN 20 ELSE 0))

\* MetaAnalyzer.analyze (analyzer.py); _analyze_description, _analyze_keywords,
\* _analyze_open_graph and _analyze_twitter_cards give what the ones of
\* meta_analyzer.py give for the documents of the model
LegacyMetaBody(soup, url) ==
    LET title == LegacyMetaTitle(soup)
        description == MetaDescription(soup)
        keywords == MetaKeywords(soup)
        og == [has_og_tags |-> Has(soup, "og")]
        twitter == [has_twitter_tags |-> Has(soup, "twitter")]
        recommendations ==
            title.issues \o description.issues \o keywords.issues
            \o (IF ~og.has_og_tags THEN << "meta:add-open-graph" >> ELSE << >>)
            \o (IF ~twitter.has_twitter_tags THEN << "meta:add-twitter-cards" >> ELSE << >>)
    IN  [title |-> title, description |-> description, keywords |-> keywords,
         open_graph |-> og, twitter_cards |-> twitter,
         meta_score |-> LegacyMetaScore(title.issues, description.issues, og.has_og_tags),
         recommendations |-> recommendations]

\* ContentQualityAnalyzer.analyze (analyzer.py), inside its try block
LegacyContentBody(soup, url) ==
    LET main == InOrder(MainContent(soup))
        word_count == SumSeq(Map(main, Words))
        sentence_count == SumSeq(Map(main, Terminators)) + 1
        readability == Readability(word_count, SumSeq(Map(main, ComplexWords)))
        recommendations ==
            (IF word_count < 300 THEN << "content:too-short" >> ELSE << >>)
            \o (IF word_count > 25 * Max(1, sentence_count)
                THEN << "content:long-sentences" >> ELSE << >>)
            \o (IF StructureBelow70(soup) THEN << "content:structure" >> ELSE << >>)
            \o (IF readability < 50 THEN << "content:hard-to-read" >> ELSE << >>)
    IN  [word_count |-> word_count, sentence_count |-> sentence_count,
         readability_score |-> readability,
         structure_score |-> StructureScore100(soup),
         recommendations |-> recommendations]

\* TechnicalSEOAnalyzer._analyze_url (analyzer.py): no query-string check
LegacyAnalyzeUrl(url) ==
    LET issues == IF url.path = "upper" THEN << "url:uppercase" >> ELSE << >>
    IN  [issues |-> issues, is_optimized |-> (issues = << >>)]

\* a penalty of 30 per recommendation instead of 25
LegacyTechnicalScorePenalty30(recommendations) == 100 - (Len(recommendations) * 30)

\* technical_score of TechnicalSEOAnalyzer.analyze (analyzer.py)
LegacyTechnicalScore(recommendations) == 100 - (Len(recommendations) * 25)

\* TechnicalSEOAnalyzer.analyze (analyzer.py), inside its try block
LegacyTechnicalBody(soup, url) ==
    LET canonical == CheckCanonical(soup)
        robots == CheckRobots(soup)
        url_analysis == LegacyAnalyzeUrl(url)
        hreflang == [has_hreflang |-> Has(soup, "hreflang"),
                     languages |-> Map(FindAll(soup, "hreflang"), LAMBDA e : e.v)]
        schema == CheckSchemaMarkup(soup)
        recommendations ==
            (IF ~canonical.has_canonical THEN << "technical:add-canonical" >> ELSE << >>)
            \o (IF ~robots.has_robots_tag THEN << "technical:add-robots" >> ELSE << >>)
            \o (IF url_analysis.issues # << >> THEN << "technical:url-issues" >> ELSE << >>)
            \o (IF ~schema.has_schema THEN << "technical:add-schema" >> ELSE << >>)
    IN  [canonical |-> canonical, robots |-> robots, url_analysis |-> url_analysis,
         hreflang |-> hreflang, schema_markup |-> schema,
         technical_score |-> LegacyTechnicalScore(recommendations),
         recommendations |-> recommendations]

\* an exception is raised inside TechnicalSEOAnalyzer.analyze (analyzer.py):
\* urlparse(url)
LegacyTechnicalRaises(soup, url) == url.raises

\* mobile_score of MobileAnalyzer.analyze (analyzer.py)
LegacyMobileScore(has_viewport, adequate_sizing, potential_issues) ==
    100 - (IF ~has_viewport THEN 40 ELSE 0) - (IF ~adequate_sizing THEN 30 ELSE 0)
        - (IF potential_issues THEN 30 ELSE 0)

\* MobileAnalyzer._check_viewport (analyzer.py): without a viewport tag the
\* result has no is_responsive key
LegacyCheckViewport(soup) ==
    IF ~Has(soup, "viewport") THEN [has_viewport |-> FALSE] ELSE CheckViewport(soup)

\* MobileAnalyzer.analyze (analyzer.py), inside its try block
LegacyMobileBody(soup, url) ==
    LET viewport == LegacyCheckViewport(soup)
        small_elements == Cardinality({ e \in soup : e.k = "a" /\ e.v = "small" })
        touch_targets == [total_touch_targets |-> Cardinality({ e \in soup : e.k = "a" }),
                          potential_small_targets |-> small_elements,
                          adequate_sizing |-> small_elements = 0]
        font_sizes == AnalyzeFontSizes(soup)
        recommendations ==
            (IF ~viewport.has_viewport THEN << "mobile:add-viewport" >> ELSE << >>)
            \o (IF ~touch_targets.adequate_sizing THEN << "mobile:touch-targets" >> ELSE << >>)
            \o (IF font_sizes.potential_issues THEN << "mobile:font-sizes" >> ELSE << >>)
    IN  [viewport |-> viewport, touch_targets |-> touch_targets, font_sizes |-> font_sizes,
         mobile_score |-> LegacyMobileScore(viewport.has_viewport,
                                            touch_targets.adequate_sizing,
                                            font_sizes.potential_issues),
         recommendations |-> recommendations]

\* ------------------------------------------------------------------------
\* The exception boundary of the analyze methods
\* ------------------------------------------------------------------------
\* what a call gives back: it returned value, or it raised
Returned(value) == [raised |-> FALSE, value |-> value]
Raised == [raised |-> TRUE, value |-> [exception |-> "exception"]]

\* try: <body>  except Exception as e: return {"error": ...}
TryExcept(throws, body, msg) ==
    IF throws THEN Returned(ErrorResult(msg)) ELSE Returned(body)

\* a body with no try block around it
NoTry(throws, body) == IF throws THEN Raised ELSE Returned(body)

\* The analyze methods.  fault tells that a statement of the call raises an
\* exception the document does not determine (MemoryError, RecursionError).
MetaAnalyzerAnalyze(soup, url, fault) ==
    TryExcept(fault, MetaBody(soup, url), "meta-analysis-failed")
ContentAnalyzerAnalyze(soup, url, fault) ==
    TryExcept(fault, ContentBody(soup, url), "content-analysis-failed")
TechnicalAnalyzerAnalyze(soup, url, fault) ==
    TryExcept(fault \/ TechnicalRaises(soup, url), TechnicalBody(soup, url),
              "technical-analysis-failed")
MobileAnalyzerAnalyze(soup, url, fault) ==
    TryExcept(fault \/ MobileRaises(soup, url), MobileBody(soup, url),
              "mobile-analysis-failed")
KeywordAnalyzerAnalyze(soup, url, fault, seed) ==
    TryExcept(fault, KeywordBody(soup, url, seed), "keyword-analysis-failed")

LegacyMetaAnalyze(soup, url, fault) ==
    NoTry(fault, LegacyMetaBody(soup, url))
LegacyContentAnalyze(soup, url, fault) ==
    TryExcept(fault, LegacyContentBody(soup, url), "content-analysis-failed")
LegacyTechnicalAnalyze(soup, url, fault) ==
    TryExcept(fault \/ LegacyTechnicalRaises(soup, url), LegacyTechnicalBody(soup, url),
              "technical-analysis-failed")
LegacyMobileAnalyze(soup, url, fault) ==
    TryExcept(fault \/ MobileRaises(soup, url), LegacyMobileBody(soup, url),
              "mobile-analysis-failed")

\* ------------------------------------------------------------------------
\* The performance provider
\* ------------------------------------------------------------------------
\* what the call of get_pagespeed_insights does: it returns metrics, it
\* returns {"error": ...} (no API key, API error, timeout), or running it on
\* the event loop raises
ProviderOutcomes == {"ok", "error", "raise"}

\* get_pagespeed_insights_sync (analyzer.py)
GetPagespeedInsightsSync(outcome) ==
    CASE outcome = "ok" ->
            [performance_score |-> 90, recommendations |-> << "pagespeed:reduce-unused-js" >>]
      [] outcome = "error" ->
            [error |-> "pagespeed:api-key-not-configured"]
      [] OTHER ->
            [error |-> "pagespeed:failed-to-analyze", performance_score |-> 54,
             recommendations |-> << "pagespeed:could-not-fetch" >>]

\* ------------------------------------------------------------------------
\* The aggregate analyses
\* ------------------------------------------------------------------------
\* results['recommendations'] if 'recommendations' in results else []
RecommendationsOf(results) ==
    IF "recommendations" \in DOMAIN results THEN results.recommendations ELSE << >>

\* the basic metadata read off the tree by the aggregate analyses
TitleContent(soup) == IF Has(soup, "title") THEN Find(soup, "title").v ELSE "not-found"
DescriptionContent(soup) ==
    IF Has(soup, "metaDesc") THEN Find(soup, "metaDesc").v
    ELSE IF Has(soup, "p") THEN "paragraphs" ELSE ""
KeywordsContent(soup) ==
    IF Has(soup, "metaKw") THEN KeywordList(Find(soup, "metaKw")) ELSE << "not-found" >>
HeadingTexts(soup, kind) == Map(FindAll(soup, kind), LAMBDA e : e.w)
ImgWithoutAlt(soup) == Cardinality({ e \in soup : e.k = "img" /\ e.v # "alt" })
InternalLinks(soup) == Cardinality({ e \in soup : e.k = "a" /\ StartsWithSlash(Href(e)) })
ExternalLinks(soup) ==
    Cardinality({ e \in soup : e.k = "a" /\ ~StartsWithSlash(Href(e)) /\ Netloc(Href(e)) # "" })
\* urlparse(a['href']) in the count of external links raises ValueError
LinkCountRaises(soup) == \E e \in soup : HrefRaises(e)

BasicMetrics(soup, pagespeed_data) ==
    [title |-> TitleContent(soup),
     h1_tags |-> HeadingTexts(soup, "h1"), h2_tags |-> HeadingTexts(soup, "h2"),
     img_without_alt |-> ImgWithoutAlt(soup),
     internal_links |-> InternalLinks(soup), external_links |-> ExternalLinks(soup),
     pagespeed |-> pagespeed_data]

\* legacy_analyze_seo, the synchronous one (analyzer.py): no try block.  The
\* prompt string, a rendering of the other fields, is left out of the reports.
SyncLegacyAnalyzeSeo(html, url, outcome) ==
    LET soup == html
        recommendations ==
            (IF Has(soup, "title") /\ Chars(Find(soup, "title")) > 60
             THEN << "title:too-long" >> ELSE << >>)
            \o (IF DescriptionLength(soup) < 10 THEN << "description:missing" >> ELSE << >>)
            \o (IF ~Has(soup, "metaKw") THEN << "legacy:keywords-missing" >> ELSE << >>)
            \o (IF ~Has(soup, "h1") THEN << "legacy:h1-missing" >> ELSE << >>)
            \o (IF ImgWithoutAlt(soup) > 0 THEN << "legacy:img-without-alt" >> ELSE << >>)
        pagespeed_data == GetPagespeedInsightsSync(outcome)
        pagespeed_recommendations == RecommendationsOf(pagespeed_data)
    IN  NoTry(LinkCountRaises(soup),
              [description |-> DescriptionContent(soup),
               keywords |-> KeywordsContent(soup),
               recommendations |-> recommendations \o pagespeed_recommendations,
               metrics |-> BasicMetrics(soup, pagespeed_data)])

\* analyze_seo (analyzer.py).  faults are the analyzers in which a statement
\* raises for a cause outside the document.
AnalyzeSeoOf(html, url, faults, outcome) ==
    LET soup == html
        meta == LegacyMetaAnalyze(soup, url, "meta" \in faults)
        content_results == LegacyContentAnalyze(soup, url, "content" \in faults).value
        technical_results == LegacyTechnicalAnalyze(soup, url, "technical" \in faults).value
        mobile_results == LegacyMobileAnalyze(soup, url, "mobile" \in faults).value
        pagespeed_data == GetPagespeedInsightsSync(outcome)
        pagespeed_recommendations == RecommendationsOf(pagespeed_data)
    IN  IF meta.raised \/ LinkCountRaises(soup)
        THEN \* except Exception: return legacy_analyze_seo(html_content, url)
             SyncLegacyAnalyzeSeo(html, url, outcome)
        ELSE LET meta_results == meta.value
                 all_recommendations ==
                     RecommendationsOf(meta_results) \o RecommendationsOf(content_results)
                     \o RecommendationsOf(technical_results)
                     \o RecommendationsOf(mobile_results) \o pagespeed_recommendations
             IN  Returned(
                   [description |-> DescriptionContent(soup),
                    keywords |-> KeywordsContent(soup),
                    recommendations |-> all_recommendations,
                    metrics |-> BasicMetrics(soup, pagespeed_data) @@
                                [meta_analysis |-> meta_results,
                                 content_analysis |-> content_results,
                                 technical_analysis |-> technical_results,
                                 mobile_analysis |-> mobile_results]])

\* the report of the except branch of legacy_analyze_seo (analyzers/__init__.py)
ErrorReport ==
    [description |-> "error-analyzing-page", keywords |-> << >>,
     recommendations |-> << "error:exception" >>,
     metrics |-> [title |-> "Error", h1_tags |-> << >>, h2_tags |-> << >>,
                  img_without_alt |-> 0, internal_links |-> 0, external_links |-> 0,
                  pagespeed |-> << >>]]

\* legacy_analyze_seo (analyzers/__init__.py), which runs the analyzers of
\* app/services/analyzers
ModularLegacyAnalyzeSeoOf(html, url, faults) ==
    LET soup == html
        meta_results == MetaAnalyzerAnalyze(soup, url, "meta" \in faults).value
        content_results == ContentAnalyzerAnalyze(soup, url, "content" \in faults).value
        technical_results == TechnicalAnalyzerAnalyze(soup, url, "technical" \in faults).value
        mobile_results == MobileAnalyzerAnalyze(soup, url, "mobile" \in faults).value
        all_recommendations ==
            RecommendationsOf(meta_results) \o RecommendationsOf(content_results)
            \o RecommendationsOf(technical_results) \o RecommendationsOf(mobile_results)
        pagespeed_data == [performance_score |-> 80,
                           recommendations |-> << "pagespeed:optimize-page-loading" >>]
    IN  IF LinkCountRaises(soup)
        THEN Returned(ErrorReport)
        ELSE Returned(
               [description |-> DescriptionContent(soup),
                keywords |-> KeywordsContent(soup),
                recommendations |-> all_recommendations,
                metrics |-> BasicMetrics(soup, pagespeed_data) @@
                            [meta_analysis |-> meta_results,
                             content_analysis |-> content_results,
                             technical_analysis |-> technical_results,
                             mobile_analysis |-> mobile_results]])

\* ------------------------------------------------------------------------
\* The web applications: src/app.py and the application create_app builds
\* from app/routes (main_routes.py at /, analysis_routes.py at /analysis)
\* ------------------------------------------------------------------------
\* the url field of the body of an analyze request
RawUrls == { "", "invalid-url", "http://www.example.com/", "https://example.com",
            "https://other.org" }

\* is_valid_url (url_validator.py): after 'https://' is put in front of a
\* url without scheme, the host needs two labels and a known last label
IsValidUrl(raw) == raw \in { "http://www.example.com/", "https://example.com", "https://other.org" }

\* normalize_url (url_validator.py): https, no leading www., no trailing slash
NormalizeUrl(raw) ==
    CASE raw = "http://www.example.com/" -> "https://example.com"
      [] raw = "" -> "https://"
      [] raw = "invalid-url" -> "https://invalid-url"
      [] OTHER -> raw

\* validate_url (app.py): [1] is_valid, [2] the url with an https scheme; a
\* url is valid when a host is left after the scheme
ValidateUrl(raw) ==
    CASE raw = "" -> << FALSE, "https://" >>
      [] raw = "invalid-url" -> << TRUE, "https://invalid-url" >>
      [] raw = "http://www.example.com/" -> << TRUE, "https://www.example.com" >>
      [] OTHER -> << TRUE, raw >>

\* what the request for the page does: the page arrives, aiohttp raises a
\* ClientError (no such host, refused, HTTP error status), or another
\* exception is raised (the total timeout ends in asyncio.TimeoutError)
FetchOutcomes == {"ok", "client-error", "timeout"}

\* fetch_website_data (app.py): [1] the text of the page, [2] the error;
\* raises what is no aiohttp.ClientError
FetchWebsiteData(raw, page, fetch) ==
    IF ~ValidateUrl(raw)[1] THEN Returned(<< {}, "fetch:invalid-url-format" >>)
    \* no host has the name invalid-url
    ELSE IF fetch = "client-error" \/ raw = "invalid-url"
    THEN Returned(<< {}, "fetch:client-error" >>)
    ELSE IF fetch = "timeout" THEN Raised
    ELSE Returned(<< page, "" >>)

\* the entries of a store (session, cache): pairs of a key and a value
Keys(store) == { entry[1] : entry \in store }
Get(store, key) == (CHOOSE entry \in store : entry[1] = key)[2]
Put(store, key, value) == { entry \in store : entry[1] # key } \cup { << key, value >> }

\* get_pagespeed_insights (app.py): the cached value, the result of the API,
\* the error dictionary for a ClientError; raises any other exception
GetPagespeedInsights(cache, raw, outcome) ==
    IF raw \in Keys(cache) THEN Returned(Get(cache, raw))
    ELSE IF outcome = "ok"
    THEN Returned([performance_score |-> 90,
                   recommendations |-> << "pagespeed:reduce-unused-js" >>])
    ELSE IF outcome = "error" THEN Returned([error |-> "pagespeed:client-error"])
    ELSE Raised

\* analyze_seo (app.py), given what get_pagespeed_insights returned.  The
\* description is never equal to the title placeholder it is compared with,
\* so the missing-description recommendation is never made.
AppAnalyzeSeo(soup, pagespeed_data) ==
    LET recommendations ==
            (IF Has(soup, "title") /\ Chars(Find(soup, "title")) > 60
             THEN << "title:too-long" >> ELSE << >>)
            \o (IF ~Has(soup, "metaKw") THEN << "legacy:keywords-missing" >> ELSE << >>)
            \o (IF ~Has(soup, "h1") THEN << "legacy:h1-missing" >> ELSE << >>)
            \o (IF ImgWithoutAlt(soup) > 0 THEN << "legacy:img-without-alt" >> ELSE << >>)
        pagespeed_recommendations ==
            IF IsError(pagespeed_data) THEN << pagespeed_data.error >>
            ELSE pagespeed_data.recommendations
    IN  NoTry(LinkCountRaises(soup),
              [description |-> DescriptionContent(soup),
               keywords |-> KeywordsContent(soup),
               recommendations |-> recommendations \o pagespeed_recommendations,
               metrics |-> BasicMetrics(soup, pagespeed_data)])

\* analyze_website of analysis_routes.py: app/services/analyzer.py defines no
\* analyze_website, the import fails and the route uses this function
AnalyzeWebsite(nurl) == [error |-> "analyzer-module-not-loaded", url |-> nurl]

\* get_pagespeed_data (pagespeed_utils.py): a result, or an error dictionary
\* with a score of 0; raises what is no requests exception
GetPagespeedData(outcome) ==
    IF outcome = "ok" THEN Returned([performance_score |-> 90])
    ELSE IF outcome = "error"
    THEN Returned([performance_score |-> 0, error |-> "pagespeed:api-key-not-configured"])
    ELSE Raised

\* generate_recommendations (analysis_routes.py) for results that have no
\* analysis in their metrics: the recommendations for the speed score
GenerateRouteRecommendations(pagespeed) ==
    IF pagespeed.raised THEN << >>
    ELSE (IF pagespeed.value.performance_score < 50
          THEN << "route:improve-page-load-speed" >> ELSE << >>)
         \o (IF pagespeed.value.performance_score < 70
             THEN << "route:browser-caching" >> ELSE << >>)

\* the results analyze (analysis_routes.py) builds from what analyze_website
\* returned; the time stamps and from_cache are left out
RouteResults(nurl, outcome) ==
    LET pagespeed == GetPagespeedData(outcome)
    IN  [analysis |-> AnalyzeWebsite(nurl),
         keywords |-> "keywords-not-found",
         metrics |-> IF pagespeed.raised THEN {} ELSE { << "pagespeed", pagespeed.value >> },
         pagespeed_error |-> pagespeed.raised,
         recommendations |-> GenerateRouteRecommendations(pagespeed)]

\* the responses
Json(status, body) == [kind |-> "json", status |-> status, body |-> body]
Page(status, template, results) ==
    [kind |-> "page", status |-> status, body |-> [template |-> template, results |-> results]]
\* a location is a path and the url parameter of its query, "" when none
Location(path, query) == << path, query >>
Redirect(location) == [kind |-> "redirect", status |-> 302, body |-> [location |-> location]]

\* a request and the response to it
Exchange(route, request, resp) == [route |-> route, request |-> request, resp |-> resp]
NoRequest == [none |-> TRUE]
NoExchange == Exchange("none", NoRequest, Json(0, [none |-> TRUE]))

\* the body of an analyze request and what the requests made for it do
AnalyzeRequest(is_json, has_url, raw, fetch, pagespeed) ==
    [is_json |-> is_json, has_url |-> has_url, url |-> raw, fetch |-> fetch,
     pagespeed |-> pagespeed]

\* ------------------------------------------------------------------------
\* The normal form of a URL (url_validator.py) and the cache keys made of it
\* ------------------------------------------------------------------------
MaxWww == 2
MaxSlashes == 2

\* a URL in its parts: the scheme written in front ("" when none), the
\* number of "www." labels the host starts with, the rest of the host, the
\* path as a base followed by a number of slashes, the query and the fragment
ParsedUrl(scheme, www, domain, base, slashes, query, fragment) ==
    [scheme |-> scheme, www |-> www, domain |-> domain, base |-> base, slashes |-> slashes,
     query |-> query, fragment |-> fragment]

SubmittedUrls ==
    { ParsedUrl(scheme, www, domain, base, slashes, query, fragment) :
        scheme \in {"", "http", "https"}, www \in 0..MaxWww, domain \in {"example.com", "intranet"},
        base \in {"", "/page"}, slashes \in 0..MaxSlashes, query \in {"", "q=1"},
        fragment \in {"", "top"} }

\* the labels of the host: the www labels and those of the rest
DomainParts(u) == u.www + (IF u.domain = "example.com" THEN 2 ELSE 1)

\* is_valid_url: 'https://' is put in front of a url without scheme; the
\* host needs two labels, and a host of two labels a common last label
is_valid_url(u) ==
    IF DomainParts(u) < 2 THEN FALSE
    ELSE IF DomainParts(u) = 2 /\ u.domain # "example.com" THEN FALSE
    ELSE TRUE

\* normalize_url: the scheme becomes https, netloc[4:] takes one "www." off
\* the host, the path "/" becomes "" and any other path that ends with a
\* slash loses one slash, the fragment is dropped, the query is kept
normalize_url(u) ==
    LET netloc_www == IF u.www >= 1 THEN u.www - 1 ELSE u.www
        path_is_slash == u.base = "" /\ u.slashes = 1
        slashes == IF path_is_slash THEN 0
                   ELSE IF u.slashes >= 1 THEN u.slashes - 1
                   ELSE u.slashes
    IN  ParsedUrl("https", netloc_www, u.domain, u.base, slashes, u.query, "")

\* ------------------------------------------------------------------------
\* The selection of the main content of a page
\* ------------------------------------------------------------------------
\* the containers a page may have: <main>, id=content, id=main-content,
\* class=content, class=main-content, <article>, and <body>
ContainerKinds == { "main", "idContent", "idMainContent", "classContent",
                    "classMainContent", "article", "body" }
ContainerDocs == { { El(k, "container", FALSE, "-") : k \in kinds } : kinds \in SUBSET ContainerKinds }

\* for candidate in content_candidates: if candidate: return candidate
RECURSIVE FirstCandidate(_, _)
FirstCandidate(soup, content_candidates) ==
    IF content_candidates = << >> THEN "None"
    ELSE IF Has(soup, Head(content_candidates)) THEN Head(content_candidates)
    ELSE FirstCandidate(soup, Tail(content_candidates))

\* ContentQualityAnalyzer._extract_main_content of content_analyzer.py and of
\* analyzer.py: the candidates in their order, then soup.body or soup
ContentCandidates == << "main", "idContent", "idMainContent", "classContent",
                        "classMainContent", "article" >>
ExtractMainContent(soup) ==
    LET candidate == FirstCandidate(soup, ContentCandidates)
    IN  IF candidate # "None" THEN candidate
        ELSE IF Has(soup, "body") THEN "body" ELSE "soup"

\* WebsiteDataCollector._extract_main_content: <article> is the second
\* candidate, and without a candidate and a body there is no main content
CollectorCandidates == << "main", "article", "idContent", "idMainContent",
                          "classContent", "classMainContent" >>
CollectorExtractMainContent(soup) ==
    LET candidate == FirstCandidate(soup, CollectorCandidates)
    IN  IF candidate # "None" THEN candidate
        ELSE IF Has(soup, "body") THEN "body" ELSE "None"

\* ------------------------------------------------------------------------
\* The crawler of app/utils/site_crawler.py
\* ------------------------------------------------------------------------
\* the largest max_pages and max_depth crawl_website is called with
MaxPages == 4
MaxDepth == 2

\* a URL is a host, a path (a page number, -1 for the empty path) and a
\* fragment; an href is absolute (it starts with http:// or https://),
\* relative, or "http://[bad", on which urlparse raises ValueError
CrawlUrl(host, path, frag) == [host |-> host, path |-> path, frag |-> frag]
Abs(host, path, frag) == [kind |-> "abs", host |-> host, path |-> path, frag |-> frag]
Rel(path, frag) == [kind |-> "rel", host |-> "", path |-> path, frag |-> frag]
BadHref == [kind |-> "bad", host |-> "[bad", path |-> -1, frag |-> ""]

start_url == CrawlUrl("site", 0, "")
\* base_domain = urlparse(start_url).netloc
base_domain == start_url.host

\* the sites: a cycle of three pages that also link home and to an anchor of
\* themselves; a tree without end in which every page links to two new
\* pages; a page with an external link, a link without path, the same link
\* twice and behind it a page with a malformed link
Sites == {"cycle", "tree", "mixed"}

\* soup.find_all("a", href=True) on the page at a path of a site
Links(s, path) ==
    CASE s = "cycle" -> << Rel((path + 1) % 3, ""), Abs("site", 0, ""), Rel(-1, "top") >>
      [] s = "tree" -> << Rel(2 * path + 1, ""), Rel(2 * path + 2, "") >>
      [] OTHER -> IF path = 0
                  THEN << Abs("ext", 1, ""), Abs("site", -1, ""), Rel(1, ""), Rel(1, ""),
                          Rel(2, "") >>
                  ELSE IF path = 1 THEN << Rel(0, ""), BadHref >>
                  ELSE << >>

\* href.startswith(('http://', 'https://'))
StartsWithHttp(href) == href.kind \in {"abs", "bad"}
\* urljoin(url, href) for an href that is a path or a fragment
UrlJoin(url, href) ==
    CrawlUrl(url.host, IF href.path = -1 THEN url.path ELSE href.path, href.frag)
\* the URL an href stands for (lines 68-72)
Resolve(url, href) ==
    IF StartsWithHttp(href) THEN CrawlUrl(href.host, href.path, href.frag)
    ELSE UrlJoin(url, href)

\* the loop over the links of a page (lines 67-80): the queue it leaves, and
\* whether urlparse(href) raised
RECURSIVE ExtractLinks(_, _, _, _, _)
ExtractLinks(links, url, depth, queue, seen) ==
    IF links = << >> THEN [raised |-> FALSE, to_visit |-> queue]
    ELSE LET href == Resolve(url, Head(links))
         IN  IF Head(links).kind = "bad" THEN [raised |-> TRUE, to_visit |-> queue]
             ELSE IF href.host # base_domain \/ href.path = -1
             THEN ExtractLinks(Tail(links), url, depth, queue, seen)
             ELSE IF href \notin seen /\ << href, depth + 1 >> \notin Range(queue)
             THEN ExtractLinks(Tail(links), url, depth, Append(queue, << href, depth + 1 >>), seen)
             ELSE ExtractLinks(Tail(links), url, depth, queue, seen)

\* the URLs at most d links away from the start URL; only the pages of the
\* site itself are followed
LinkedFrom(s, u) ==
    IF u.host # base_domain THEN {}
    ELSE { Resolve(u, Links(s, u.path)[i]) : i \in 1..Len(Links(s, u.path)) }

RECURSIVE Within(_, _)
Within(s, d) ==
    IF d <= 0 THEN {start_url}
    ELSE LET near == Within(s, d - 1)
         IN  near \cup UNION { LinkedFrom(s, u) : u \in near }

\* while to_visit and len(visited) < max_pages, going on at the limit too
CrawlContinuesAtLimit(queue, seen, limit) == queue # << >> /\ Cardinality(seen) <= limit

\* while to_visit and len(visited) < max_pages
CrawlContinues(queue, seen, limit) == queue # << >> /\ Cardinality(seen) < limit

\* what is left of to_visit when its head is read and not popped
Peeked(queue) == queue

\* what to_visit.pop(0) leaves of to_visit
Popped(queue) == Tail(queue)

\* ------------------------------------------------------------------------
\* get_pagespeed_data of app/utils/pagespeed_utils.py
\* ------------------------------------------------------------------------
max_retries == 3

\* what requests.get gives: it raises Timeout or another RequestException, or
\* returns a response with a status code and a body.  The body of a 200
\* response is a Lighthouse result whose performance score is a number
\* (given in hundredths) or null, or it is not JSON; the body of a 400
\* response is an error object or is not JSON.
Response(kind, status, body, score) ==
    [kind |-> kind, status |-> status, body |-> body, score |-> score]
ApiResponses ==
    { Response("timeout", 0, "none", 0), Response("exception", 0, "none", 0),
      Response("response", 200, "not-json", 0), Response("response", 200, "null-score", 0),
      Response("response", 400, "error", 0), Response("response", 400, "not-json", 0),
      Response("response", 429, "none", 0), Response("response", 500, "none", 0) }
    \cup { Response("response", 200, "metrics", score) : score \in {0, 57, 100} }

\* int(score * 100) in floating point: 0.57 * 100 is 56.99999999999999
PerformanceScore(hundredths) == IF hundredths = 57 THEN 56 ELSE hundredths

\* response.json() on a body that is not JSON raises
\* requests.exceptions.JSONDecodeError, a RequestException
JsonRaises(response) == response.kind = "response" /\ response.body = "not-json"

\* one pass of the loop (lines 67-152) for what requests.get gave: "return"
\* with a result, "continue", or "raise" (the TypeError of None * 100)
Pass(attempt_no, response) ==
    LET more == attempt_no < max_retries - 1
        retry(error) == IF more THEN [do |-> "continue", value |-> [performance_score |-> 0, error |-> error]]
                        ELSE [do |-> "return", value |-> [performance_score |-> 0, error |-> error]]
    IN  IF response.kind = "timeout" THEN retry("pagespeed:timed-out")
        ELSE IF response.kind = "exception" \/ (JsonRaises(response) /\ response.status \in {200, 400})
        THEN retry("pagespeed:request-error")
        ELSE IF response.status = 200
        THEN IF response.body = "null-score"
             THEN [do |-> "raise", value |-> [performance_score |-> 0, error |-> "TypeError"]]
             ELSE [do |-> "return",
                   value |-> [performance_score |-> PerformanceScore(response.score),
                              error |-> ""]]
        ELSE IF response.status = 400 THEN retry("pagespeed:api-error")
        ELSE IF response.status = 429
        THEN [do |-> "continue", value |-> [performance_score |-> 0, error |-> "rate-limited"]]
        ELSE retry("pagespeed:status-code")

\* ------------------------------------------------------------------------
\* The cache manager of app/utils/cache_manager.py
\* ------------------------------------------------------------------------
\* an argument left out or given as None is << >>, an argument n is << n >>
PyNone == << >>
Some(x) == << x >>

\* the number of keys the calls are made with: one more than the in-memory
\* cache is built to hold
MaxMemoryItems == 1
\* the last instant the clock reaches
MaxTime == 2

\* CacheManager(default_ttl, max_memory_items): time is counted in units of
\* half the default time to live
default_ttl == 2
max_memory_items == MaxMemoryItems

CacheKeys == 1..(MaxMemoryItems + 1)

\* the values stored: a tuple, and a set (which json cannot write)
CacheValues == { [kind |-> "tuple", data |-> "v1"], [kind |-> "set", data |-> "v2"] }
NoValue == [kind |-> "None", data |-> "-"]

\* hashlib.md5(key.encode()).hexdigest()
GenerateKey(key) == << "md5", key >>
\* os.path.join(self.cache_dir, f"{hashed_key}.json")
GetCachePath(key) == << "cache", GenerateKey(key), ".json" >>

\* json.dump followed by json.load: a tuple is written as an array and read
\* as a list
JsonSerializable(value) == value.kind \in {"str", "tuple", "list", "None"}
JsonRoundTrip(value) == IF value.kind = "tuple" THEN [value EXCEPT !.kind = "list"] ELSE value

\* the content of a cache file; a file json.dump gave up on is not JSON
CacheData(value, expiration) == [json |-> TRUE, value |-> JsonRoundTrip(value), expiration |-> expiration]
NotJson == [json |-> FALSE, value |-> NoValue, expiration |-> 0]

Without(store, key) == { entry \in store : entry[1] # key }

\* ------------------------------------------------------------------------
\* The state machine
\* ------------------------------------------------------------------------
VARIABLES
    html,   \* the page under analysis, as fetched
    url,    \* its URL
    soup,   \* the parsed tree shared by the analyzers (raw_data["soup"])
    last,   \* the call whose result the caller holds: the operation, its
            \* inputs and what it gave; NoCall between two calls
    server,   \* the web application that serves: "app.py" or "create_app"
    session,  \* the session of the client
    cache,    \* the cache of the application
    exchange, \* the request made last and its response; NoExchange once the
              \* client has read the response
    memory_cache,     \* CacheManager.memory_cache: hashed key -> value
    cache_timestamps, \* CacheManager.cache_timestamps: hashed key -> expiration
    cache_files,      \* the files of cache_dir: path -> content
    clock,            \* what time.time() returns
    touched,          \* for each key, the set, delete or clear made last on it
    answer,           \* the call made last on the cache manager and what it gave
    site,         \* the site crawl_website is run on
    max_pages,    \* its argument max_pages
    max_depth,    \* its argument max_depth
    to_visit,     \* its list of (url, depth) still to visit
    visited,      \* its set of visited URLs
    all_content,  \* the texts, urls and title it has collected
    crawl_pc,     \* where it stands: "loop", "fetch", "done" or "raised"
    current,      \* the (url, depth) it is fetching
    attempts,     \* the (url, depth) of every fetch it has attempted, in order
    api_key,      \* PAGESPEED_API_KEY of the application
    attempt,      \* the loop variable of get_pagespeed_data
    responses,    \* what came back from each request it has issued, in order
    pagespeed_pc, \* where it stands: "loop", "done" or "raised"
    result,       \* what it returned
    submitted     \* the URL a client submits for analysis, in its parts

pageVars == << html, url, soup, last >>
routeVars == << server, session, cache, exchange >>
managerVars == << memory_cache, cache_timestamps, cache_files, clock, touched, answer >>
crawlVars == << site, max_pages, max_depth, to_visit, visited, all_content, crawl_pc,
               current, attempts >>
speedVars == << api_key, attempt, responses, pagespeed_pc, result >>
keyVars == << submitted >>
utilVars == << managerVars, crawlVars, speedVars, keyVars >>
vars == << pageVars, routeVars, utilVars >>

Call(op, faults, outcome, ret) ==
    [op |-> op, faults |-> faults, outcome |-> outcome, ret |-> ret]

\* the sets of analyzers that fail in one aggregate run
FaultSets == { {}, {"meta"}, {"technical"}, {"meta", "content", "technical", "mobile"} }

NoCall == Call("none", {}, "none", Returned([none |-> TRUE]))
Idle == last = NoCall

\* CacheManager.__init__ on a new cache directory
ManagerCall(op, key, ret) == [op |-> op, key |-> key, ret |-> ret, at |-> clock]
Untouched == [op |-> "none", value |-> NoValue, expiration |-> 0, raised |-> FALSE]
\* the variables of the crawler before a crawl
NoCrawl ==
    /\ site = "tree"
    /\ max_pages = 0
    /\ max_depth = 0
    /\ to_visit = << >>
    /\ visited = {}
    /\ all_content = [texts |-> << >>, urls |-> << >>, title |-> ""]
    /\ crawl_pc = "none"
    /\ current = << start_url, 0 >>
    /\ attempts = << >>

\* the variables of get_pagespeed_data before a call
NoSpeedCall ==
    /\ api_key = ""
    /\ attempt = 0
    /\ responses = << >>
    /\ pagespeed_pc = "none"
    /\ result = [performance_score |-> 0, error |-> ""]

\* no URL has been submitted: the address of the site in its normal form
NoSubmission == submitted = ParsedUrl("https", 0, "example.com", "", 0, "", "")

ManagerInit ==
    /\ memory_cache = {}
    /\ cache_timestamps = {}
    /\ cache_files = {}
    /\ clock = 0
    /\ touched = [key \in CacheKeys |-> Untouched]
    /\ answer = [op |-> "none", key |-> 0, ret |-> Returned(NoValue), at |-> 0]

Init ==
    /\ ManagerInit
    /\ NoSubmission
    /\ NoCrawl
    /\ NoSpeedCall
    /\ html \in Docs
    /\ url \in Urls
    /\ soup = html
    /\ last = NoCall
    /\ server = "app.py"
    /\ session = {}
    /\ cache = {}
    /\ exchange = NoExchange

\* soup = BeautifulSoup(html_content, 'html.parser'): the caller parses the
\* page again
Parse ==
    /\ Idle
    /\ soup' = html
    /\ UNCHANGED << html, url, last >>
    /\ UNCHANGED << routeVars, utilVars >>

\* the caller has used the result and goes on to its next call
Collect ==
    /\ ~Idle
    /\ last' = NoCall
    /\ UNCHANGED << html, url, soup >>
    /\ UNCHANGED << routeVars, utilVars >>

FaultOf(fault) == IF fault THEN {"fault"} ELSE {}

\* the analyzers of app/services/analyzers, run on the shared tree
MetaAnalyze(fault) ==
    /\ Idle
    /\ last' = Call("meta", FaultOf(fault), "none", MetaAnalyzerAnalyze(soup, url, fault))
    /\ UNCHANGED << html, url, soup >>
    /\ UNCHANGED << routeVars, utilVars >>

ContentAnalyze(fault) ==
    /\ Idle
    /\ last' = Call("content", FaultOf(fault), "none", ContentAnalyzerAnalyze(soup, url, fault))
    /\ UNCHANGED << html, url, soup >>
    /\ UNCHANGED << routeVars, utilVars >>

TechnicalAnalyze(fault) ==
    /\ Idle
    /\ last' = Call("technical", FaultOf(fault), "none", TechnicalAnalyzerAnalyze(soup, url, fault))
    /\ UNCHANGED << html, url, soup >>
    /\ UNCHANGED << routeVars, utilVars >>

MobileAnalyze(fault) ==
    /\ Idle
    /\ last' = Call("mobile", FaultOf(fault), "none", MobileAnalyzerAnalyze(soup, url, fault))
    /\ UNCHANGED << html, url, soup >>
    /\ UNCHANGED << routeVars, utilVars >>

\* _extract_text_content extracts the script, style, noscript, iframe,
\* header, footer and nav elements from the tree it was given; a failing call
\* stops before or after that loop
KeywordAnalyze(fault, seed) ==
    /\ Idle
    /\ last' = Call("keyword", FaultOf(fault), seed, KeywordAnalyzerAnalyze(soup, url, fault, seed))
    /\ soup' \in (IF fault THEN {soup, Extracted(soup)} ELSE {Extracted(soup)})
    /\ UNCHANGED << html, url >>
    /\ UNCHANGED << routeVars, utilVars >>

\* the analyzers of app/services/analyzer.py, run on the shared tree
LegacyMeta(fault) ==
    /\ Idle
    /\ last' = Call("legacy-meta", FaultOf(fault), "none", LegacyMetaAnalyze(soup, url, fault))
    /\ UNCHANGED << html, url, soup >>
    /\ UNCHANGED << routeVars, utilVars >>

LegacyContent(fault) ==
    /\ Idle
    /\ last' = Call("legacy-content", FaultOf(fault), "none", LegacyContentAnalyze(soup, url, fault))
    /\ UNCHANGED << html, url, soup >>
    /\ UNCHANGED << routeVars, utilVars >>

LegacyTechnical(fault) ==
    /\ Idle
    /\ last' = Call("legacy-technical", FaultOf(fault), "none",
                    LegacyTechnicalAnalyze(soup, url, fault))
    /\ UNCHANGED << html, url, soup >>
    /\ UNCHANGED << routeVars, utilVars >>

LegacyMobile(fault) ==
    /\ Idle
    /\ last' = Call("legacy-mobile", FaultOf(fault), "none", LegacyMobileAnalyze(soup, url, fault))
    /\ UNCHANGED << html, url, soup >>
    /\ UNCHANGED << routeVars, utilVars >>

\* analyze_seo(html_content, url) of analyzer.py: parses its own tree
AnalyzeSeo(faults, outcome) ==
    /\ Idle
    /\ last' = Call("analyze_seo", faults, outcome, AnalyzeSeoOf(html, url, faults, outcome))
    /\ UNCHANGED << html, url, soup >>
    /\ UNCHANGED << routeVars, utilVars >>

\* legacy_analyze_seo(html_content, url) of analyzers/__init__.py: parses its
\* own tree
ModularLegacyAnalyzeSeo(faults) ==
    /\ Idle
    /\ last' = Call("modular_analyze_seo", faults, "none",
                    ModularLegacyAnalyzeSeoOf(html, url, faults))
    /\ UNCHANGED << html, url, soup >>
    /\ UNCHANGED << routeVars, utilVars >>

Next ==
    \/ Parse
    \/ Collect
    \/ \E fault \in BOOLEAN : MetaAnalyze(fault)
    \/ \E fault \in BOOLEAN : ContentAnalyze(fault)
    \/ \E fault \in BOOLEAN : TechnicalAnalyze(fault)
    \/ \E fault \in BOOLEAN : MobileAnalyze(fault)
    \/ \E fault \in BOOLEAN, seed \in HashSeeds : KeywordAnalyze(fault, seed)
    \/ \E fault \in BOOLEAN : LegacyMeta(fault)
    \/ \E fault \in BOOLEAN : LegacyContent(fault)
    \/ \E fault \in BOOLEAN : LegacyTechnical(fault)
    \/ \E fault \in BOOLEAN : LegacyMobile(fault)
    \/ \E faults \in FaultSets, outcome \in ProviderOutcomes : AnalyzeSeo(faults, outcome)
    \/ \E faults \in FaultSets : ModularLegacyAnalyzeSeo(faults)

Spec == Init /\ [][Next]_vars

TypeOK ==
    /\ html \in Docs
    /\ url \in Urls
    /\ soup \subseteq html
    /\ last.ret.raised \in BOOLEAN

\* ------------------------------------------------------------------------
\* The requests to the web applications
\* ------------------------------------------------------------------------
\* the pages the analysed site serves
RouteDocs == { {}, FullDoc, { El("a", "bad", FALSE, "-") }, { El("title", "long", FALSE, "-") } }

AnalyzeRequests ==
    { AnalyzeRequest(is_json, TRUE, raw, fetch, pagespeed) :
          is_json \in BOOLEAN, raw \in RawUrls, fetch \in FetchOutcomes,
          pagespeed \in ProviderOutcomes }
    \cup { AnalyzeRequest(is_json, FALSE, "", "ok", "ok") : is_json \in BOOLEAN }

RouteInit ==
    /\ ManagerInit
    /\ NoSubmission
    /\ NoCrawl
    /\ NoSpeedCall
    /\ html \in RouteDocs
    /\ url = Url(FALSE, "https", "clean", FALSE)
    /\ soup = html
    /\ last = NoCall
    /\ server \in {"app.py", "create_app"}
    /\ session = {}
    /\ cache = {}
    /\ exchange = NoExchange

\* what a handler does: its response and the session and cache it leaves
Outcome(resp, sess, store) == [resp |-> resp, session |-> sess, cache |-> store]

\* analyze (app.py): POST /analyze with a JSON body
AppAnalyzeOf(request, page, sess, store) ==
    IF ~request.has_url
    THEN Outcome(Json(400, [error |-> "url-not-provided"]), sess, store)
    ELSE LET fetched == FetchWebsiteData(request.url, page, request.fetch)
             pagespeed == GetPagespeedInsights(store, request.url, request.pagespeed)
             internal == Outcome(Json(500, [error |-> "internal-server-error"]), sess, store)
         IN  IF fetched.raised THEN internal
             ELSE IF fetched.value[2] # ""
             THEN Outcome(Json(400, [error |-> fetched.value[2]]), sess, store)
             ELSE IF LinkCountRaises(fetched.value[1]) \/ pagespeed.raised THEN internal
             ELSE Outcome(Json(200, [redirect |-> Location("/result", "")]),
                          Put(sess, "seo_results",
                              AppAnalyzeSeo(fetched.value[1], pagespeed.value).value),
                          IF IsError(pagespeed.value) THEN store
                          ELSE Put(store, request.url, pagespeed.value))

AppAnalyze(request) ==
    /\ server = "app.py" /\ exchange = NoExchange /\ request.is_json
    /\ LET done == AppAnalyzeOf(request, html, session, cache)
       IN  /\ exchange' = Exchange("analyze", request, done.resp)
           /\ session' = done.session
           /\ cache' = done.cache
    /\ UNCHANGED << pageVars, utilVars, server >>

\* result (app.py) and result (main_routes.py): GET /result
ResultOf(sess) ==
    IF "seo_results" \notin Keys(sess) THEN Redirect(Location("/amplify", ""))
    ELSE Page(200, "result.html", Get(sess, "seo_results"))

AppResult ==
    /\ server = "app.py" /\ exchange = NoExchange
    /\ exchange' = Exchange("result", NoRequest, ResultOf(session))
    /\ UNCHANGED << pageVars, utilVars, server, session, cache >>

MainResult ==
    /\ server = "create_app" /\ exchange = NoExchange
    /\ exchange' = Exchange("result", NoRequest, ResultOf(session))
    /\ UNCHANGED << pageVars, utilVars, server, session, cache >>

\* the answer of analysis_routes.py to a request: JSON for a JSON request,
\* a rendered template otherwise
Answer(request, status, body, template) ==
    IF request.is_json THEN Json(status, body) ELSE Page(status, template, body)

CacheKey(nurl) == << "analysis", nurl >>

\* analyze (analysis_routes.py): POST /analysis/analyze.  On a cache hit the
\* branch for a form request reads analysis_results before it is assigned.
RouteAnalyzeOf(request, sess, store) ==
    LET raw == IF request.has_url THEN request.url ELSE ""
        nurl == NormalizeUrl(raw)
        complete == [status |-> "complete", redirect |-> Location("/analysis/result", nurl)]
        results == RouteResults(nurl, request.pagespeed)
    IN  IF raw = ""
        THEN Outcome(Answer(request, 400, [error |-> "url-required"], "error.html"), sess, store)
        ELSE IF ~IsValidUrl(raw)
        THEN Outcome(Answer(request, 400, [error |-> "invalid-url-format"], "error.html"),
                     sess, store)
        ELSE IF CacheKey(nurl) \in Keys(store)
        THEN Outcome(IF request.is_json THEN Json(200, complete)
                     ELSE Page(500, "error.html", [error |-> "analysis-failed"]),
                     sess, store)
        ELSE Outcome(IF request.is_json THEN Json(200, complete)
                     ELSE Page(200, "results.html", results),
                     sess, Put(store, CacheKey(nurl), results))

RouteAnalyze(request) ==
    /\ server = "create_app" /\ exchange = NoExchange
    /\ LET done == RouteAnalyzeOf(request, session, cache)
       IN  /\ exchange' = Exchange("analyze", request, done.resp)
           /\ session' = done.session
           /\ cache' = done.cache
    /\ UNCHANGED << pageVars, utilVars, server >>

\* ensure_result_structure (analysis_routes.py) reads results['descriptions']
\* and raises KeyError when the results have none
EnsureResultStructure(results) ==
    IF "descriptions" \notin DOMAIN results THEN Raised ELSE Returned(results)

\* show_result (analysis_routes.py): GET /analysis/result?url=
ShowResultOf(raw, store) ==
    IF raw = "" THEN Redirect(Location("/", ""))
    ELSE IF CacheKey(NormalizeUrl(raw)) \in Keys(store)
    THEN LET ensured == EnsureResultStructure(Get(store, CacheKey(NormalizeUrl(raw))))
         IN  IF ensured.raised THEN Page(500, "errors/500.html", [error |-> "internal-server-error"])
             ELSE Page(200, "results.html", ensured.value)
    ELSE Redirect(Location("/", NormalizeUrl(raw)))

ShowResult(raw) ==
    /\ server = "create_app" /\ exchange = NoExchange
    /\ exchange' = Exchange("show_result", [url |-> raw], ShowResultOf(raw, cache))
    /\ UNCHANGED << pageVars, utilVars, server, session, cache >>

\* the client has read the response
Deliver ==
    /\ exchange # NoExchange
    /\ exchange' = NoExchange
    /\ UNCHANGED << pageVars, utilVars, server, session, cache >>

\* an entry of the cache is older than its time to live of one hour
CacheExpire ==
    /\ exchange = NoExchange
    /\ \E entry \in cache : cache' = cache \ {entry}
    /\ UNCHANGED << pageVars, utilVars, server, session, exchange >>

RouteNext ==
    \/ \E request \in AnalyzeRequests : AppAnalyze(request)
    \/ AppResult
    \/ \E request \in AnalyzeRequests : RouteAnalyze(request)
    \/ MainResult
    \/ \E raw \in RawUrls : ShowResult(raw)
    \/ Deliver
    \/ CacheExpire

RouteSpec == RouteInit /\ [][RouteNext]_vars

\* ------------------------------------------------------------------------
\* The calls on the cache manager
\* ------------------------------------------------------------------------
\* the ttl and expiry arguments the calls to set are made with
SetArguments ==
    { << PyNone, PyNone >>, << Some(1), PyNone >>, << PyNone, Some(0) >> }

\* CacheManager.set: the entry is stored in memory first; with more than
\* max_memory_items entries in memory it calls self._cleanup_memory_cache(),
\* a method the class does not have, and the AttributeError leaves set
\* before the file is written
CacheSet(key, value, ttl, expiry) ==
    LET ttl1 == IF ttl = PyNone /\ expiry # PyNone THEN expiry ELSE ttl
        ttl2 == IF ttl1 = PyNone THEN default_ttl ELSE ttl1[1]
        std_key == GenerateKey(key)
        expiration == clock + ttl2
        stored == Put(memory_cache, std_key, value)
        raises == Cardinality(stored) > max_memory_items
        written == IF JsonSerializable(value) THEN CacheData(value, expiration) ELSE NotJson
    IN  /\ memory_cache' = stored
        /\ cache_timestamps' = Put(cache_timestamps, std_key, expiration)
        /\ cache_files' = IF raises THEN cache_files
                          ELSE Put(cache_files, GetCachePath(key), written)
        /\ touched' = [touched EXCEPT ![key] =
                          [op |-> "set", value |-> value, expiration |-> expiration,
                           raised |-> raises]]
        /\ answer' = ManagerCall("set", key, IF raises THEN Raised ELSE Returned(NoValue))
        /\ UNCHANGED << pageVars, routeVars, keyVars, crawlVars, speedVars, clock >>

\* what get and exists do when the key is not in memory or has expired
\* there: they read the file of the key
ReadFile(key, memory, timestamps) ==
    LET std_key == GenerateKey(key)
        cache_path == GetCachePath(key)
        exists == cache_path \in Keys(cache_files)
        cache_data == Get(cache_files, cache_path)
    IN  IF ~exists \/ ~cache_data.json
        THEN [found |-> FALSE, value |-> NoValue, memory |-> memory,
              timestamps |-> timestamps, files |-> cache_files]
        ELSE IF cache_data.expiration > clock
        THEN [found |-> TRUE, value |-> cache_data.value,
              memory |-> Put(memory, std_key, cache_data.value),
              timestamps |-> Put(timestamps, std_key, cache_data.expiration),
              files |-> cache_files]
        ELSE [found |-> FALSE, value |-> NoValue, memory |-> memory,
              timestamps |-> timestamps, files |-> Without(cache_files, cache_path)]

Lookup(key) ==
    LET std_key == GenerateKey(key)
    IN  IF std_key \in Keys(memory_cache) /\ Get(cache_timestamps, std_key) > clock
        THEN [found |-> TRUE, value |-> Get(memory_cache, std_key),
              memory |-> memory_cache, timestamps |-> cache_timestamps,
              files |-> cache_files]
        ELSE ReadFile(key, Without(memory_cache, std_key),
                      Without(cache_timestamps, std_key))

\* CacheManager.get, with the default None
CacheGet(key) ==
    LET found == Lookup(key)
    IN  /\ memory_cache' = found.memory
        /\ cache_timestamps' = found.timestamps
        /\ cache_files' = found.files
        /\ answer' = ManagerCall("get", key, Returned(found.value))
        /\ UNCHANGED << pageVars, routeVars, keyVars, crawlVars, speedVars, clock, touched >>

\* CacheManager.exists
CacheExists(key) ==
    LET found == Lookup(key)
    IN  /\ memory_cache' = found.memory
        /\ cache_timestamps' = found.timestamps
        /\ cache_files' = found.files
        /\ answer' = ManagerCall("exists", key, Returned([kind |-> "bool", data |-> ToString(found.found)]))
        /\ UNCHANGED << pageVars, routeVars, keyVars, crawlVars, speedVars, clock, touched >>

\* CacheManager.delete
CacheDelete(key) ==
    LET std_key == GenerateKey(key)
        cache_path == GetCachePath(key)
        found == std_key \in Keys(memory_cache) \/ cache_path \in Keys(cache_files)
    IN  /\ memory_cache' = Without(memory_cache, std_key)
        /\ cache_timestamps' = Without(cache_timestamps, std_key)
        /\ cache_files' = Without(cache_files, cache_path)
        /\ touched' = [touched EXCEPT ![key] = [Untouched EXCEPT !.op = "delete"]]
        /\ answer' = ManagerCall("delete", key, Returned([kind |-> "bool", data |-> ToString(found)]))
        /\ UNCHANGED << pageVars, routeVars, keyVars, crawlVars, speedVars, clock >>

\* CacheManager.clear
CacheClear ==
    /\ memory_cache' = {}
    /\ cache_timestamps' = {}
    /\ cache_files' = {}
    /\ touched' = [key \in CacheKeys |-> [Untouched EXCEPT !.op = "clear"]]
    /\ answer' = ManagerCall("clear", 0, Returned(NoValue))
    /\ UNCHANGED << pageVars, routeVars, keyVars, crawlVars, speedVars, clock >>

\* CacheManager.cleanup, which the cleanup thread calls every five minutes:
\* the entries and the files that have expired go; a file that is not JSON
\* is skipped
CacheCleanup ==
    LET expired_keys == { entry[1] : entry \in { e \in cache_timestamps : e[2] <= clock } }
        gone == { k \in expired_keys : k \in Keys(memory_cache) }
        expired_files == { entry \in cache_files : entry[2].json /\ entry[2].expiration <= clock }
        count == Cardinality(gone) + Cardinality(expired_files)
    IN  /\ memory_cache' = { entry \in memory_cache : entry[1] \notin gone }
        /\ cache_timestamps' = { entry \in cache_timestamps : entry[1] \notin gone }
        /\ cache_files' = cache_files \ expired_files
        /\ answer' = ManagerCall("cleanup", 0, Returned([kind |-> "int", data |-> ToString(count)]))
        /\ UNCHANGED << pageVars, routeVars, keyVars, crawlVars, speedVars, clock, touched >>

\* time passes
Tick ==
    /\ clock < MaxTime
    /\ clock' = clock + 1
    /\ UNCHANGED << pageVars, routeVars, keyVars, crawlVars, speedVars, memory_cache, cache_timestamps, cache_files,
                    touched, answer >>

CacheInit ==
    /\ ManagerInit
    /\ NoSubmission
    /\ NoCrawl
    /\ NoSpeedCall
    /\ html = {}
    /\ url = Url(FALSE, "https", "clean", FALSE)
    /\ soup = html
    /\ last = NoCall
    /\ server = "create_app"
    /\ session = {}
    /\ cache = {}
    /\ exchange = NoExchange

CacheNext ==
    \/ \E key \in CacheKeys, value \in CacheValues, arguments \in SetArguments :
           CacheSet(key, value, arguments[1], arguments[2])
    \/ \E key \in CacheKeys : CacheGet(key)
    \/ \E key \in CacheKeys : CacheExists(key)
    \/ \E key \in CacheKeys : CacheDelete(key)
    \/ CacheClear
    \/ CacheCleanup
    \/ Tick

CacheSpec == CacheInit /\ [][CacheNext]_vars

\* ------------------------------------------------------------------------
\* The three places that select the main content, on pages with containers
\* ------------------------------------------------------------------------
ContainerInit ==
    /\ ManagerInit
    /\ NoSubmission
    /\ NoCrawl
    /\ NoSpeedCall
    /\ html \in ContainerDocs
    /\ url = Url(FALSE, "https", "clean", FALSE)
    /\ soup = html
    /\ last = NoCall
    /\ server = "app.py"
    /\ session = {}
    /\ cache = {}
    /\ exchange = NoExchange

\* ContentQualityAnalyzer._extract_main_content (content_analyzer.py)
ContentMainContent ==
    /\ Idle
    /\ last' = Call("content-main", {}, "none", Returned([main_content |-> ExtractMainContent(soup)]))
    /\ UNCHANGED << html, url, soup, routeVars, utilVars >>

\* ContentQualityAnalyzer._extract_main_content (analyzer.py)
LegacyMainContent ==
    /\ Idle
    /\ last' = Call("legacy-main", {}, "none", Returned([main_content |-> ExtractMainContent(soup)]))
    /\ UNCHANGED << html, url, soup, routeVars, utilVars >>

\* WebsiteDataCollector._extract_main_content
CollectorMainContent ==
    /\ Idle
    /\ last' = Call("collector-main", {}, "none",
                    Returned([main_content |-> CollectorExtractMainContent(soup)]))
    /\ UNCHANGED << html, url, soup, routeVars, utilVars >>

ContainerNext ==
    \/ ContentMainContent
    \/ LegacyMainContent
    \/ CollectorMainContent
    \/ Collect

ContainerSpec == ContainerInit /\ [][ContainerNext]_vars

\* ------------------------------------------------------------------------
\* crawl_website
\* ------------------------------------------------------------------------
\* crawl_website(start_url, max_pages, max_depth), lines 22-32
CrawlInit ==
    /\ ManagerInit
    /\ NoSubmission
    /\ NoSpeedCall
    /\ html = {}
    /\ url = Url(FALSE, "https", "clean", FALSE)
    /\ soup = html
    /\ last = NoCall
    /\ server = "app.py"
    /\ session = {}
    /\ cache = {}
    /\ exchange = NoExchange
    /\ site \in Sites
    /\ max_pages \in 0..MaxPages
    /\ max_depth \in 0..MaxDepth
    /\ to_visit = << << start_url, 0 >> >>
    /\ visited = {}
    /\ all_content = [texts |-> << >>, urls |-> << >>, title |-> ""]
    /\ crawl_pc = "loop"
    /\ current = << start_url, 0 >>
    /\ attempts = << >>

\* lines 34-43: the head of the list is popped; a URL that was visited or
\* lies too deep is passed over, any other URL is fetched
CrawlPop ==
    /\ crawl_pc = "loop"
    /\ CrawlContinues(to_visit, visited, max_pages)
    /\ to_visit' = Popped(to_visit)
    /\ IF Head(to_visit)[1] \in visited \/ Head(to_visit)[2] > max_depth
       THEN UNCHANGED << crawl_pc, current, attempts >>
       ELSE /\ crawl_pc' = "fetch"
            /\ current' = Head(to_visit)
            /\ attempts' = Append(attempts, Head(to_visit))
    /\ UNCHANGED << pageVars, routeVars, keyVars, managerVars, speedVars, site, max_pages, max_depth, visited,
                    all_content >>

\* lines 43-82: fetch_website_data returns an error or no content, or the
\* content of the page, whose text is kept and whose links are queued
CrawlFetched(outcome) ==
    /\ crawl_pc = "fetch"
    /\ LET this == current[1]
           depth == current[2]
           links == IF depth < max_depth
                    THEN ExtractLinks(Links(site, this.path), this, depth, to_visit, visited)
                    ELSE [raised |-> FALSE, to_visit |-> to_visit]
       IN  IF outcome = "error"
           THEN /\ visited' = visited \cup {this}
                /\ crawl_pc' = "loop"
                /\ UNCHANGED << to_visit, all_content >>
           ELSE /\ all_content' =
                       [texts |-> Append(all_content.texts, << "text", this.path >>),
                        urls |-> Append(all_content.urls, this),
                        title |-> IF Cardinality(visited) = 0 THEN "title"
                                  ELSE all_content.title]
                /\ to_visit' = links.to_visit
                /\ visited' = IF links.raised THEN visited ELSE visited \cup {this}
                /\ crawl_pc' = IF links.raised THEN "raised" ELSE "loop"
    /\ UNCHANGED << pageVars, routeVars, keyVars, managerVars, speedVars, site, max_pages, max_depth, current,
                    attempts >>

\* lines 84-85: the loop is over and all_content is returned
CrawlReturn ==
    /\ crawl_pc = "loop"
    /\ ~CrawlContinues(to_visit, visited, max_pages)
    /\ crawl_pc' = "done"
    /\ UNCHANGED << pageVars, routeVars, keyVars, managerVars, speedVars, site, max_pages, max_depth, to_visit,
                    visited, all_content, current, attempts >>

CrawlNext ==
    \/ CrawlPop
    \/ \E outcome \in {"ok", "error"} : CrawlFetched(outcome)
    \/ CrawlReturn

CrawlSpec == CrawlInit /\ [][CrawlNext]_vars

\* the coroutine runs on whenever it can, and fetch_website_data returns:
\* it catches every exception and gives the request 15 seconds
FairCrawlSpec ==
    /\ CrawlSpec
    /\ WF_vars(CrawlPop)
    /\ WF_vars(\E outcome \in {"ok", "error"} : CrawlFetched(outcome))
    /\ WF_vars(CrawlReturn)

\* ------------------------------------------------------------------------
\* get_pagespeed_data
\* ------------------------------------------------------------------------
\* get_pagespeed_data(url), lines 35-47: without an API key it returns at once
SpeedInit ==
    /\ ManagerInit
    /\ NoSubmission
    /\ NoCrawl
    /\ html = {}
    /\ url = Url(FALSE, "https", "clean", FALSE)
    /\ soup = html
    /\ last = NoCall
    /\ server = "create_app"
    /\ session = {}
    /\ cache = {}
    /\ exchange = NoExchange
    /\ api_key \in {"", "key"}
    /\ attempt = 0
    /\ responses = << >>
    /\ pagespeed_pc = IF api_key = "" THEN "done" ELSE "loop"
    /\ result = [performance_score |-> 0,
                 error |-> IF api_key = "" THEN "pagespeed:api-key-not-configured" ELSE ""]

\* one pass of for attempt in range(max_retries): the request and what the
\* function does with what comes back
SpeedRequest(response) ==
    /\ pagespeed_pc = "loop"
    /\ attempt < max_retries
    /\ responses' = Append(responses, response)
    /\ LET pass == Pass(attempt, response)
       IN  /\ pagespeed_pc' = CASE pass.do = "return" -> "done"
                                [] pass.do = "raise" -> "raised"
                                [] OTHER -> "loop"
           /\ result' = IF pass.do = "return" THEN pass.value ELSE result
           /\ attempt' = IF pass.do = "continue" THEN attempt + 1 ELSE attempt
    /\ UNCHANGED << pageVars, routeVars, keyVars, managerVars, crawlVars, api_key >>

\* line 154: the loop has run out
SpeedGiveUp ==
    /\ pagespeed_pc = "loop"
    /\ attempt = max_retries
    /\ pagespeed_pc' = "done"
    /\ result' = [performance_score |-> 0, error |-> "pagespeed:failed-after-attempts"]
    /\ UNCHANGED << pageVars, routeVars, keyVars, managerVars, crawlVars, api_key, attempt, responses >>

SpeedNext ==
    \/ \E response \in ApiResponses : SpeedRequest(response)
    \/ SpeedGiveUp

SpeedSpec == SpeedInit /\ [][SpeedNext]_vars

\* ------------------------------------------------------------------------
\* The cache key of an analysis, from /analyze to /status and /result
\* ------------------------------------------------------------------------
KeyInit ==
    /\ ManagerInit
    /\ NoCrawl
    /\ NoSpeedCall
    /\ submitted \in SubmittedUrls
    /\ html = {}
    /\ url = Url(FALSE, "https", "clean", FALSE)
    /\ soup = html
    /\ last = NoCall
    /\ server = "create_app"
    /\ session = {}
    /\ cache = {}
    /\ exchange = NoExchange

\* the url a response sends the client to, when it sends it to /result
SendsTo(resp) ==
    IF resp.kind = "json" /\ "redirect" \in DOMAIN resp.body THEN { resp.body.redirect[2] }
    ELSE {}

\* analyze (analysis_routes.py) for a JSON request with the submitted url:
\* the results are stored under the key of the normalised url, and the
\* response names /result with that url
KeyAnalyze ==
    /\ exchange = NoExchange
    /\ LET nurl == normalize_url(submitted)
           complete == [status |-> "complete", redirect |-> Location("/analysis/result", nurl)]
       IN  IF ~is_valid_url(submitted)
           THEN /\ exchange' = Exchange("analyze", [url |-> submitted],
                                        Json(400, [error |-> "invalid-url-format"]))
                /\ cache' = cache
           ELSE /\ exchange' = Exchange("analyze", [url |-> submitted], Json(200, complete))
                /\ cache' = IF CacheKey(nurl) \in Keys(cache) THEN cache
                            ELSE Put(cache, CacheKey(nurl), [url |-> nurl])
    /\ UNCHANGED << pageVars, utilVars, server, session >>

\* check_status (analysis_routes.py), asked with the url the last response
\* named
KeyStatus ==
    /\ \E given \in SendsTo(exchange.resp) :
         LET nurl == normalize_url(given)
         IN  exchange' = Exchange("check_status", [url |-> given],
                 IF CacheKey(nurl) \in Keys(cache)
                 THEN Json(200, [status |-> "complete",
                                 redirect |-> Location("/analysis/result", nurl)])
                 ELSE Json(200, [status |-> "in_progress"]))
    /\ UNCHANGED << pageVars, utilVars, server, session, cache >>

\* show_result (analysis_routes.py), asked with the url the last response
\* named
KeyResult ==
    /\ \E given \in SendsTo(exchange.resp) :
         LET nurl == normalize_url(given)
         IN  exchange' = Exchange("show_result", [url |-> given],
                 IF CacheKey(nurl) \in Keys(cache)
                 THEN Page(200, "results.html", Get(cache, CacheKey(nurl)))
                 ELSE Redirect(Location("/", nurl)))
    /\ UNCHANGED << pageVars, utilVars, server, session, cache >>

KeyNext ==
    \/ KeyAnalyze
    \/ KeyStatus
    \/ KeyResult
    \/ Deliver

KeySpec == KeyInit /\ [][KeyNext]_vars

\* ------------------------------------------------------------------------
\* Properties
\* ------------------------------------------------------------------------
ModularOps == {"meta", "content", "technical", "mobile", "keyword"}
LegacyOps == {"legacy-meta", "legacy-content", "legacy-technical", "legacy-mobile"}
AnalyzerOps == ModularOps \cup LegacyOps
AggregateOps == {"analyze_seo", "modular_analyze_seo"}
Slots == {"meta_analysis", "content_analysis", "technical_analysis", "mobile_analysis"}
ScoreKeys == {"meta_score", "technical_score", "mobile_score", "keyword_score"}

\* C1: for every analyzer, document and URL, analyze never raises; when a
\* step inside it throws it returns an object holding an error message.
C1_AnalyzeNeverRaises ==
    last.op \in AnalyzerOps =>
        /\ ~last.ret.raised
        /\ last.faults # {} => IsError(last.ret.value)

\* the analyzers of an aggregate run in which a statement throws
FailedAnalyzers ==
    last.faults
    \cup (IF last.op = "analyze_seo" /\ LegacyTechnicalRaises(html, url)
          THEN {"technical"} ELSE {})
    \cup (IF last.op = "modular_analyze_seo" /\ ~LinkCountRaises(html)
             /\ TechnicalRaises(html, url)
          THEN {"technical"} ELSE {})
    \cup (IF MobileRaises(html, url) /\ ~(last.op = "modular_analyze_seo" /\ LinkCountRaises(html))
          THEN {"mobile"} ELSE {})

SlotOf(analyzer) ==
    CASE analyzer = "meta" -> "meta_analysis"
      [] analyzer = "content" -> "content_analysis"
      [] analyzer = "technical" -> "technical_analysis"
      [] OTHER -> "mobile_analysis"

\* C2: when one analyzer fails during an aggregate run, the report is still
\* returned, only that analyzer's slot holds the error object, every other
\* analyzer's result is in its slot, and the merged recommendations hold
\* nothing of the failed analyzer.
C2_FailureIsolated ==
    (last.op \in AggregateOps /\ Cardinality(FailedAnalyzers) = 1) =>
        /\ ~last.ret.raised
        /\ Slots \subseteq DOMAIN last.ret.value.metrics
        /\ \A a \in {"meta", "content", "technical", "mobile"} :
              IsError(last.ret.value.metrics[SlotOf(a)]) <=> a \in FailedAnalyzers
        /\ LET metrics == last.ret.value.metrics
               merged == RecommendationsOf(metrics.meta_analysis)
                         \o RecommendationsOf(metrics.content_analysis)
                         \o RecommendationsOf(metrics.technical_analysis)
                         \o RecommendationsOf(metrics.mobile_analysis)
           IN  /\ \A a \in FailedAnalyzers : RecommendationsOf(metrics[SlotOf(a)]) = << >>
               /\ last.ret.value.recommendations
                     \in {merged, merged \o RecommendationsOf(metrics.pagespeed)}

\* C3: when every analyzer fails, the aggregate analysis returns a report
\* whose analyzer slots all hold error objects and whose overall_score is 0.
C3_AllFailReport ==
    (last.op \in AggregateOps /\ FailedAnalyzers = {"meta", "content", "technical", "mobile"}) =>
        /\ ~last.ret.raised
        /\ Slots \subseteq DOMAIN last.ret.value.metrics
        /\ \A slot \in Slots : IsError(last.ret.value.metrics[slot])
        /\ "overall_score" \in DOMAIN last.ret.value
        /\ last.ret.value.overall_score = 0

\* C4: for every document and URL, each analyzer's own score (meta_score,
\* technical_score, mobile_score, keyword_score) is within 0..100.
C4_ScoresInRange ==
    (last.op \in AnalyzerOps /\ ~last.ret.raised) =>
        \A key \in ScoreKeys \cap DOMAIN last.ret.value :
            last.ret.value[key] \in 0..100

\* an analyzer has returned a score at the lower end of the range
C4_Witness ==
    /\ last.op = "legacy-technical"
    /\ ~IsError(last.ret.value)
    /\ last.ret.value.technical_score = 0

\* C5: the report of the aggregate analysis carries an overall_score, the
\* blend of the available sub-scores weighted meta 30, content 30,
\* technical 25, mobile 15, and that value is within 0..100.
C5_OverallScore ==
    (last.op \in AggregateOps /\ ~last.ret.raised) =>
        /\ "overall_score" \in DOMAIN last.ret.value
        /\ last.ret.value.overall_score \in 0..100
        /\ LET metrics == last.ret.value.metrics
               blend == << << "meta_analysis", "meta_score", 30 >>,
                           << "content_analysis", "content_score", 30 >>,
                           << "technical_analysis", "technical_score", 25 >>,
                           << "mobile_analysis", "mobile_score", 15 >> >>
               available == SelectSeq(blend, LAMBDA t :
                                t[1] \in DOMAIN metrics /\ t[2] \in DOMAIN metrics[t[1]])
               weighted == SumSeq(Map(available, LAMBDA t : t[3] * metrics[t[1]][t[2]]))
               weights == SumSeq(Map(available, LAMBDA t : t[3]))
           IN  last.ret.value.overall_score = RoundHalfEven(weighted, Max(1, weights))

\* C6: the report's recommendations are the concatenation of the meta,
\* content, technical, mobile and keyword analyzers' recommendations, in
\* this order, followed by the performance provider's recommendations.
C6_RecommendationOrder ==
    (last.op \in AggregateOps /\ ~last.ret.raised
       /\ Slots \subseteq DOMAIN last.ret.value.metrics) =>
        LET metrics == last.ret.value.metrics
        IN  \E seed \in HashSeeds :
                last.ret.value.recommendations =
                    RecommendationsOf(metrics.meta_analysis)
                    \o RecommendationsOf(metrics.content_analysis)
                    \o RecommendationsOf(metrics.technical_analysis)
                    \o RecommendationsOf(metrics.mobile_analysis)
                    \o RecommendationsOf(KeywordAnalyzerAnalyze(html, url, FALSE, seed).value)
                    \o RecommendationsOf(metrics.pagespeed)

\* C7: no analyzer changes the parsed document: after an analyzer's analyze
\* returns, the tree holds the elements it held before the call.
C7_DocumentUnchanged == [][last'.op \in AnalyzerOps => soup' = soup]_vars

\* what an analyzer returns when it is the first to run on the parsed page
FirstRun(op, seed) ==
    CASE op = "meta" -> MetaAnalyzerAnalyze(html, url, FALSE)
      [] op = "content" -> ContentAnalyzerAnalyze(html, url, FALSE)
      [] op = "technical" -> TechnicalAnalyzerAnalyze(html, url, FALSE)
      [] op = "mobile" -> MobileAnalyzerAnalyze(html, url, FALSE)
      [] op = "keyword" -> KeywordAnalyzerAnalyze(html, url, FALSE, seed)
      [] op = "legacy-meta" -> LegacyMetaAnalyze(html, url, FALSE)
      [] op = "legacy-content" -> LegacyContentAnalyze(html, url, FALSE)
      [] op = "legacy-technical" -> LegacyTechnicalAnalyze(html, url, FALSE)
      [] OTHER -> LegacyMobileAnalyze(html, url, FALSE)

\* C8: each analyzer's result is the same in every order in which the five
\* analyzers are run against the one shared parsed document: whatever ran
\* before it, an analyzer returns what it returns when it runs first.  (The
\* keyword analyzer is the only one that writes to the tree, so in an order
\* of the five it always meets the tree as parsed.)
C8_OrderIndependent ==
    (last.op \in AnalyzerOps \ {"keyword"} /\ last.faults = {}) =>
        last.ret = FirstRun(last.op, "seedA")

\* C9: running one analyzer twice on the same document yields identical
\* results: a run of the keyword analyzer returns what its first run on the
\* parsed document returns in the same interpreter process.
C9_RepeatIdentical ==
    (last.op = "keyword" /\ last.faults = {}) =>
        last.ret = FirstRun("keyword", last.outcome)

\* C10: when the performance provider returns {error: message}, analyze_seo
\* returns a full report, metrics.pagespeed carries that error and the
\* message is among the report's recommendations.
C10_ProviderErrorReported ==
    (last.op = "analyze_seo" /\ last.outcome = "error" /\ last.faults = {}) =>
        /\ ~last.ret.raised
        /\ Slots \subseteq DOMAIN last.ret.value.metrics
        /\ IsError(last.ret.value.metrics.pagespeed)
        /\ last.ret.value.metrics.pagespeed.error = "pagespeed:api-key-not-configured"
        /\ "pagespeed:api-key-not-configured" \in Range(last.ret.value.recommendations)

\* C11: whenever the analysed page has no h1 element, the recommendations
\* returned by analyze_seo include a missing-H1 recommendation.
C11_MissingH1Recommended ==
    (last.op = "analyze_seo" /\ ~last.ret.raised /\ ~Has(html, "h1")) =>
        "legacy:h1-missing" \in Range(last.ret.value.recommendations)

\* C12: whenever the analysed page has no meta description tag, the
\* recommendations returned by analyze_seo include a missing-meta-description
\* recommendation.
C12_MissingDescriptionRecommended ==
    (last.op = "analyze_seo" /\ ~last.ret.raised /\ ~Has(html, "metaDesc")) =>
        "description:missing" \in Range(last.ret.value.recommendations)

\* C13: metrics.img_without_alt is the number of img elements with no
\* non-empty alt attribute; with no such image the report has no alt-text
\* recommendation, with N > 0 of them it has the 'N images without alt' one.
C13_ImgWithoutAlt ==
    (last.op = "analyze_seo" /\ ~last.ret.raised) =>
        LET n == Cardinality({ e \in html : e.k = "img" /\ e.v # "alt" })
        IN  /\ last.ret.value.metrics.img_without_alt = n
            /\ (n > 0) <=> ("legacy:img-without-alt" \in Range(last.ret.value.recommendations))

\* C14: a link is internal exactly when its href is root-relative or points
\* to the host of the analysed URL (a relative href does), external
\* otherwise; the report's internal_links and external_links and the
\* technical analyzer's counts both follow this rule, and internal linking
\* is sufficient exactly when there are at least 3 unique internal links.
\* Links to a fragment of the page itself are left out of the count.
C14_OneLinkRule ==
    (/\ last.op = "modular_analyze_seo" /\ ~last.ret.raised
     /\ "meta_analysis" \in DOMAIN last.ret.value.metrics
     /\ ~IsError(last.ret.value.metrics.technical_analysis)) =>
        LET links == { e \in html : e.k = "a" /\ e.v \in {"root", "same", "rel", "ext"} }
            internal == Cardinality({ e \in links : e.v \in {"root", "same", "rel"} })
            external == Cardinality({ e \in links : e.v = "ext" })
            metrics == last.ret.value.metrics
            linking == metrics.technical_analysis.internal_links
        IN  /\ metrics.internal_links = internal
            /\ metrics.external_links = external
            /\ linking.internal_links.count = internal
            /\ linking.external_links.count = external
            /\ linking.has_sufficient_internal <=> (linking.internal_links.unique_count >= 3)

C16_MobileScore ==
    (last.op \in {"mobile", "legacy-mobile"} /\ ~last.ret.raised /\ ~IsError(last.ret.value)) =>
        LET r == last.ret.value
            responsive == Has(soup, "viewport") /\ Find(soup, "viewport").v = "resp"
            is_responsive == "is_responsive" \in DOMAIN r.viewport /\ r.viewport.is_responsive
        IN  /\ is_responsive <=> responsive
            /\ r.mobile_score =
                   (IF responsive THEN 30 ELSE 0)
                   + (IF r.touch_targets.adequate_sizing THEN 20 ELSE 0)
                   + (IF ~r.font_sizes.potential_issues THEN 15 ELSE 0)
                   + (IF \E e \in soup : e.k = "img" /\ e.v = "srcset" THEN 15 ELSE 0)
                   + (IF \E e \in soup : e.k = "style" /\ e.v = "media" THEN 20 ELSE 0)

\* C17: duplicate_content.duplicate_count is the number of distinct
\* paragraph texts longer than 20 characters that occur more than once on
\* the page, and has_duplicates is true exactly when that number is positive.
C17_DuplicateCount ==
    (last.op = "content" /\ ~last.ret.raised /\ ~IsError(last.ret.value)) =>
        LET ps == { e \in soup : e.k = "p" }
            repeated == { e \in ps : Chars(e) > 20
                                     /\ \E f \in ps : f # e /\ f.v = e.v /\ f.w = e.w }
            n == Cardinality({ << e.v, e.w >> : e \in repeated })
        IN  /\ last.ret.value.duplicate_content.duplicate_count = n
            /\ last.ret.value.duplicate_content.has_duplicates <=> (n > 0)

\* the content analyzer has run on a page with a 30-character paragraph that
\* occurs twice and a 15-character paragraph that occurs twice, and has
\* counted one duplicate
C17_Witness ==
    /\ last.op = "content" /\ ~last.ret.raised /\ ~IsError(last.ret.value)
    /\ { El("p", "para", b, "alpha") : b \in BOOLEAN } \subseteq soup
    /\ { El("p", "short", b, "beta") : b \in BOOLEAN } \subseteq soup
    /\ last.ret.value.duplicate_content.has_duplicates
    /\ last.ret.value.duplicate_content.duplicate_count = 1

\* C18: has_keyword_stuffing is true exactly when at least one auto-detected
\* top keyword has a density above 5%, and the keywords flagged are the ones
\* above 5%.
C18_KeywordStuffing ==
    (last.op = "keyword" /\ ~last.ret.raised /\ ~IsError(last.ret.value)) =>
        LET keywords == last.ret.value.detected_keywords.keywords
            density == last.ret.value.density
            above == { i \in 1..Len(keywords) : keywords[i].density10 > 50 }
        IN  /\ density.has_keyword_stuffing <=> (above # {})
            /\ Range(density.potential_stuffing) = { keywords[i].keyword : i \in above }
            /\ \A i \in 1..Len(keywords) :
                   keywords[i].density10 =
                       RoundHalfEven(1000 * keywords[i].count,
                                     Max(1, last.ret.value.detected_keywords.total_words))

\* the keyword analyzer has flagged stuffing on a page where one top keyword
\* has a density between 5% and 7% and another one a density of 5% or less
C18_Witness ==
    /\ last.op = "keyword" /\ ~last.ret.raised /\ ~IsError(last.ret.value)
    /\ last.ret.value.density.has_keyword_stuffing
    /\ \E i, j \in 1..Len(last.ret.value.detected_keywords.keywords) :
           LET keywords == last.ret.value.detected_keywords.keywords
           IN  /\ keywords[i].density10 > 50 /\ keywords[i].density10 <= 70
               /\ keywords[j].density10 <= 50
               /\ keywords[i].keyword \in Range(last.ret.value.density.potential_stuffing)
               /\ keywords[j].keyword \notin Range(last.ret.value.density.potential_stuffing)

\* the analyze request of the exchange was a JSON request with a valid URL
\* whose page was fetched
SuccessfulAnalyze(e) ==
    /\ e.route = "analyze" /\ e.request.is_json /\ e.request.has_url
    /\ IsValidUrl(e.request.url) /\ e.request.fetch = "ok"
    /\ e.resp.status = 200

\* C19: after a successful analyze request the response is 200 with a
\* redirect to the result page and the session holds seo_results, the
\* analysis result; GET /result renders the seo_results of the session and
\* redirects to /amplify when the session has none.
C19_ResultInSession ==
    /\ SuccessfulAnalyze(exchange) =>
           /\ exchange.resp.kind = "json"
           /\ "redirect" \in DOMAIN exchange.resp.body
           /\ exchange.resp.body.redirect[1] \in {"/result", "/analysis/result"}
           /\ "seo_results" \in Keys(session)
           /\ server = "app.py" =>
                  Get(session, "seo_results") =
                      AppAnalyzeSeo(html, GetPagespeedInsights(cache, exchange.request.url,
                                                               "error").value).value
    /\ exchange.route = "result" =>
           IF "seo_results" \in Keys(session)
           THEN exchange.resp = Page(200, "result.html", Get(session, "seo_results"))
           ELSE exchange.resp = Redirect(Location("/amplify", ""))

\* the analyze request has no url, an invalid url, or its page fetch fails
FailingRequest(request) ==
    ~request.has_url \/ ~IsValidUrl(request.url) \/ request.fetch # "ok"

\* C20: an analyze request with no url, with an invalid url, or whose page
\* fetch fails is answered with status 400 and an error field, which carries
\* the fetch error text in the last case, and nothing is stored in the
\* session or the cache.
C20_FailedRequestRejected ==
    [][ (/\ exchange = NoExchange /\ exchange'.route = "analyze"
         /\ exchange'.request.is_json /\ FailingRequest(exchange'.request)) =>
            /\ exchange'.resp.status = 400
            /\ "error" \in DOMAIN exchange'.resp.body
            /\ (/\ exchange'.request.has_url /\ IsValidUrl(exchange'.request.url)
                /\ server = "app.py") => exchange'.resp.body.error = "fetch:client-error"
            /\ session' = session
            /\ cache' = cache ]_vars

\* C21: after set(key, value, ttl), get(key) returns value at every time
\* before the expiration (time of set + ttl) and the default None at every
\* time at or after it, unless a later set, delete or clear touches the key;
\* after delete(key) or clear(), get(key) returns None.
C21_GetAfterSet ==
    answer.op = "get" =>
        LET t == touched[answer.key]
        IN  /\ t.op = "set" =>
                answer.ret.value = (IF answer.at < t.expiration THEN t.value ELSE NoValue)
            /\ t.op \in {"delete", "clear"} => answer.ret.value = NoValue

\* C22: after any sequence of set, get, delete, clear and cleanup calls the
\* in-memory cache holds at most max_memory_items entries, and memory_cache
\* and cache_timestamps have the same key set.
C22_MemoryBounded ==
    /\ Cardinality(memory_cache) <= max_memory_items
    /\ Keys(memory_cache) = Keys(cache_timestamps)

\* C23: for every document, meta_score is 25 if the title has no issues + 25
\* if the description has no issues + 15 if any Open Graph tag is present
\* + 10 if any Twitter Card tag is present + 10 if a favicon is present + 15
\* if the html lang attribute is present.
C23_MetaScore ==
    (last.op \in {"meta", "legacy-meta"} /\ ~last.ret.raised /\ ~IsError(last.ret.value)) =>
        LET r == last.ret.value
        IN  r.meta_score =
                (IF r.title.issues = << >> THEN 25 ELSE 0)
                + (IF r.description.issues = << >> THEN 25 ELSE 0)
                + (IF \E e \in soup : e.k = "og" THEN 15 ELSE 0)
                + (IF \E e \in soup : e.k = "twitter" THEN 10 ELSE 0)
                + (IF \E e \in soup : e.k = "favicon" THEN 10 ELSE 0)
                + (IF \E e \in soup : e.k = "html" /\ e.v = "lang" THEN 15 ELSE 0)

\* C24: technical_score is 15 if a canonical tag is present + 10 if a robots
\* meta tag is present + 15 if the URL has no hygiene issue + 15 if schema
\* markup is present + 20% of the optimization score + 15 if the URL scheme
\* is https + 10% of the link score, where the optimization score is 40 for
\* resource hints + 40% of the async/defer script percentage + 20 for lazy
\* loading.  Both sides are counted in hundredths.
C24_TechnicalScore ==
    (last.op \in {"technical", "legacy-technical"} /\ ~last.ret.raised
         /\ ~IsError(last.ret.value)) =>
        LET r == last.ret.value
            loading == CheckLoadingOptimization(soup)
            optimization == (IF loading.has_resource_hints THEN 40 ELSE 0)
                            + (40 * loading.script_score) \div 100
                            + (IF loading.has_lazy_loading THEN 20 ELSE 0)
            links == AnalyzeInternalLinks(soup, url)
        IN  100 * r.technical_score =
                100 * ((IF r.canonical.has_canonical THEN 15 ELSE 0)
                       + (IF r.robots.has_robots_tag THEN 10 ELSE 0)
                       + (IF r.url_analysis.issues = << >> THEN 15 ELSE 0)
                       + (IF r.schema_markup.has_schema THEN 15 ELSE 0)
                       + (IF url.scheme = "https" THEN 15 ELSE 0))
                + 20 * optimization + 10 * links.link_score

\* C25: keyword_score is 100 minus 5 when the page has no meta keywords tag,
\* minus 20 when the placement score is below 50 or 10 when it is between 50
\* and 69, minus 15 when stuffing is flagged, minus 5 for each detected
\* issue, clamped to 0..100.  The page is the tree the analyzer is given.
C25_KeywordScore ==
    [][ (Idle /\ last'.op = "keyword" /\ ~last'.ret.raised /\ ~IsError(last'.ret.value)) =>
            LET r == last'.ret.value
                score == 100
                         - (IF \E e \in soup : e.k = "metaKw" THEN 0 ELSE 5)
                         - (IF r.placement.placement_score < 50 THEN 20
                            ELSE IF r.placement.placement_score <= 69 THEN 10 ELSE 0)
                         - (IF r.density.has_keyword_stuffing THEN 15 ELSE 0)
                         - 5 * Len(r.issues)
            IN  r.keyword_score =
                    (IF score < 0 THEN 0 ELSE IF score > 100 THEN 100 ELSE score) ]_vars

\* the keyword analyzer has scored a page without a meta keywords tag, with a
\* placement score of 60 and stuffing flagged: 100 - 5 - 10 - 15 - 5 = 65
C25_Witness ==
    /\ last.op = "keyword" /\ ~last.ret.raised /\ ~IsError(last.ret.value)
    /\ ~\E e \in html : e.k = "metaKw"
    /\ last.ret.value.placement.placement_score = 60
    /\ last.ret.value.density.has_keyword_stuffing
    /\ last.ret.value.issues = << "issue:stuffing" >>
    /\ last.ret.value.keyword_score = 65

\* C26: the main-content element is the first one present in the fixed order
\* <main>, id=content, id=main-content, class=content, class=main-content,
\* <article>, then <body>, then the whole document, in every place of the
\* code that selects main content.
C26_MainContentOrder ==
    last.op \in {"content-main", "legacy-main", "collector-main"} =>
        LET order == << "main", "idContent", "idMainContent", "classContent",
                        "classMainContent", "article", "body" >>
            present == { i \in 1..Len(order) : \E e \in soup : e.k = order[i] }
            first == IF present = {} THEN "soup"
                     ELSE order[CHOOSE i \in present : \A j \in present : i <= j]
        IN  last.ret.value.main_content = first

\* C27: crawl_website attempts at most max_pages page fetches, never fetches
\* the same URL twice, and fetches only URLs whose link depth from the start
\* URL is at most max_depth; the texts and urls lists have equal length.
C27_CrawlBounds ==
    crawl_pc # "none" =>
        /\ Len(attempts) <= max_pages
        /\ \A i, j \in 1..Len(attempts) : attempts[i][1] = attempts[j][1] => i = j
        /\ \A i \in 1..Len(attempts) : attempts[i][1] \in Within(site, max_depth)
        /\ Len(all_content.texts) = Len(all_content.urls)

\* a crawl of the site without end has returned at the page limit, with
\* pages two links deep fetched and more pages left in its list
C27_Witness ==
    /\ crawl_pc = "done" /\ site = "tree"
    /\ Len(attempts) = max_pages /\ max_pages = MaxPages
    /\ to_visit # << >>
    /\ Len(all_content.urls) >= 1

C29_PagespeedAlwaysReturns ==
    api_key # "" =>
        /\ Len(responses) <= 3
        /\ pagespeed_pc # "raised"
        /\ pagespeed_pc = "done" =>
               LET answered == responses[Len(responses)]
               IN  IF answered.kind = "response" /\ answered.status = 200
                      /\ answered.body # "not-json"
                   THEN result.error = ""
                   ELSE result.performance_score = 0 /\ result.error # ""

\* C30: normalize_url is idempotent, so that the cache key /status and
\* /result compute from the url of a redirect is the key /analyze stored the
\* results under: the url /analyze answers with is its own normal form, and
\* a /status or /result request made with it finds the stored results
C30_NormalizeIdempotent ==
    /\ \A given \in SendsTo(exchange.resp) : normalize_url(given) = given
    /\ exchange.route \in {"check_status", "show_result"} =>
           /\ CacheKey(normalize_url(exchange.request.url)) = CacheKey(normalize_url(submitted))
           /\ CacheKey(normalize_url(exchange.request.url)) \in Keys(cache)

====
